---- MODULE Spec2Model ----
(***************************************************************************)
(* Storage layer (Page, DiskManager, BufferManager, TableStorage), the     *)
(* persisted SystemCatalog and the CREATE TABLE / INSERT statement paths   *)
(* of the database engine.                                                 *)
(*                                                                         *)
(* A Python exception is modelled by the field err of the threaded state   *)
(* record: every operator stops at the first error and hands back the      *)
(* state as the code left it when the exception propagated.                *)
(***************************************************************************)
EXTENDS Integers, Sequences, FiniteSets, TLC

\* ------------------------------------------------------------------ bounds
MaxCapacity == 2      \* pool capacities 1..MaxCapacity
MaxPages == 3         \* pages per user table file
MaxRows == 4          \* rows ever appended to the user table
BigPad == 4039        \* filler characters of the long TEXT value
MaxValues == 2        \* value rows of one INSERT statement
MaxPredId == 2        \* ids the WHERE clauses compare with
MaxSteps == 3         \* operations in one run of Spec
MaxStorageSteps == 5  \* operations in one run of SpecStorage
MaxStmtSteps == 6     \* statements in one run of SpecStmt
MaxQueryRows == 2     \* rows of each queried table
MaxQuerySteps == 1    \* SELECT statements in one run of SpecQuery
HugePad == 4058       \* filler characters of a TEXT value no page can hold
MaxAppendSteps == 4   \* operations in a run of SpecAppend
MaxRestartSteps == 5  \* statements and restarts in one run of SpecRestart
MaxStatements == 4    \* statements of one input
MaxExecuteSteps == 1  \* inputs in one run of SpecExecute
MaxPoolSteps == 4     \* operations in a run of SpecPool
MaxCatalogSteps == 4  \* operations in a run of SpecCatalog

\* --------------------------------------------------------------- constants
PAGE_SIZE == 4096
DELETED == "__deleted__"
CATALOG == "pg_catalog"
UserTables == {"t"}
CreateNames == UserTables \cup {"T"}
Tables == UserTables \cup {CATALOG}
NoErr == "ok"

\* ------------------------------------------------------------------ values
\* A scalar as json.dumps sees it.  A string is s followed by pad filler
\* characters (plain ASCII, nothing to escape).
IntV(i) == [k |-> "int", i |-> i, s |-> "", pad |-> 0]
StrV(s, pad) == [k |-> "str", i |-> 0, s |-> s, pad |-> pad]
NullV == [k |-> "null", i |-> 0, s |-> "", pad |-> 0]
TrueV == [k |-> "bool", i |-> 1, s |-> "", pad |-> 0]
ListV == [k |-> "list", i |-> 0, s |-> "", pad |-> 0]

Short == StrV("a", 0)
Big == StrV("b", BigPad)
TextValues == {Short, Big}
\* a row with this value is longer than an empty page has room for
Huge == StrV("h", HugePad)
AppendValues == TextValues \cup {Huge}

Digits(i) == IF i < 10 THEN 1 ELSE IF i < 100 THEN 2 ELSE IF i < 1000 THEN 3 ELSE 4

JsonLen(v) ==
    CASE v.k = "int" -> IF v.i < 0 THEN 1 + Digits(0 - v.i) ELSE Digits(v.i)
      [] v.k = "str" -> Len(v.s) + v.pad + 2
      [] v.k = "null" -> 4
      [] v.k = "bool" -> 4
      [] v.k = "list" -> 2

RECURSIVE KeysLen(_, _)
KeysLen(r, S) ==
    IF S = {} THEN 0
    ELSE LET c == CHOOSE x \in S : TRUE
         IN Len(c) + 3 + JsonLen(r[c]) + KeysLen(r, S \ {c})

\* len(json.dumps(row, separators=(",", ":")))
RowLen(r) ==
    LET n == Cardinality(DOMAIN r)
    IN 2 + KeysLen(r, DOMAIN r) + (IF n > 0 THEN n - 1 ELSE 0)

RECURSIVE RowsLen(_)
RowsLen(rows) == IF rows = <<>> THEN 0 ELSE RowLen(Head(rows)) + RowsLen(Tail(rows))

\* length of {"version":1,"rows":[...]}
PageLen(rows) == 23 + RowsLen(rows) + (IF Len(rows) > 0 THEN Len(rows) - 1 ELSE 0)

\* -------------------------------------------------------------------- Page
\* Page.serialize: the block written to the file, or PageFullError.
SerializeOk(rows) == PageLen(rows) <= PAGE_SIZE
\* json.dumps of a scalar: the JSON token it is written as
JsonDumps(v) ==
    CASE v.k = "int" -> [j |-> "number", n |-> v.i, chars |-> "", pad |-> 0]
      [] v.k = "str" -> [j |-> "string", n |-> 0, chars |-> v.s, pad |-> v.pad]
      [] v.k = "null" -> [j |-> "null", n |-> 0, chars |-> "", pad |-> 0]
      [] v.k = "bool" -> [j |-> IF v.i = 1 THEN "true" ELSE "false", n |-> 0,
                          chars |-> "", pad |-> 0]
      [] v.k = "list" -> [j |-> "array", n |-> 0, chars |-> "", pad |-> 0]

\* json.loads that reads the literal true as the number 1
JsonLoadsTrueAsNumber(tok) ==
    CASE tok.j = "number" -> IntV(tok.n)
      [] tok.j = "string" -> StrV(tok.chars, tok.pad)
      [] tok.j = "null" -> NullV
      [] tok.j = "true" -> IntV(1)
      [] tok.j = "false" -> IntV(0)
      [] tok.j = "array" -> ListV

\* json.loads of one JSON token
JsonLoads(tok) ==
    CASE tok.j = "number" -> IntV(tok.n)
      [] tok.j = "string" -> StrV(tok.chars, tok.pad)
      [] tok.j = "null" -> NullV
      [] tok.j = "true" -> TrueV
      [] tok.j = "false" -> [k |-> "bool", i |-> 0, s |-> "", pad |-> 0]
      [] tok.j = "array" -> ListV

\* the block holds the JSON text of the rows, len bytes of it before the
\* zero padding
Serialize(rows) ==
    [len |-> PageLen(rows),
     text |-> [i \in 1..Len(rows) |-> [c \in DOMAIN rows[i] |-> JsonDumps(rows[i][c])]]]
ZeroBlock == [len |-> 0, text |-> <<>>]

\* Page.deserialize: an all-zero block is an empty page.
Deserialize(block) ==
    IF block.len = 0 THEN <<>>
    ELSE [i \in 1..Len(block.text) |->
            [c \in DOMAIN block.text[i] |-> JsonLoads(block.text[i][c])]]

IsDeleted(r) == DELETED \in DOMAIN r /\ r[DELETED] = TrueV

\* Page.try_append_row: [ok, rows]
TryAppendRow(rows, row) ==
    IF SerializeOk(Append(rows, row))
    THEN [ok |-> TRUE, rows |-> Append(rows, row)]
    ELSE [ok |-> FALSE, rows |-> rows]

SetKey(r, key, v) == [c \in DOMAIN r \cup {key} |-> IF c = key THEN v ELSE r[c]]

\* Page.iter_live_rows
RECURSIVE IterLiveRows(_)
IterLiveRows(rows) ==
    IF rows = <<>> THEN <<>>
    ELSE IF IsDeleted(Head(rows)) THEN IterLiveRows(Tail(rows))
         ELSE <<Head(rows)>> \o IterLiveRows(Tail(rows))

\* ------------------------------------------------------------------- state
VARIABLES
    capacity,     \* BufferManager.capacity
    cache,        \* BufferManager.cache, least recently used first
    disk,         \* the table files: disk[table] is the sequence of 4KB blocks
    alias,        \* SystemCatalog._memory_tables when it is a row of a resident page
    nextId,       \* the id column of the next row to be inserted
    shadow,       \* history: per page, the rows last written to it in memory
    abs,          \* history: the table as a plain list of rows
    tomb,         \* history: ids of the rows tombstoned by delete_where
    appendOnly,   \* history: the table has only been appended to
    obs,          \* history: a scan followed by one INSERT statement
    lastOp,       \* history: the operation just performed and its outcome
    query,        \* the rows of the queried tables, the last SELECT and its result
    stats,        \* hit_count, miss_count, evict_count and the stats file
    usage,        \* history: get_page calls, frames removed, keys by last access
    steps         \* history: number of operations performed

vars == <<capacity, cache, disk, alias, nextId, shadow, abs, tomb, appendOnly, obs, lastOp,
          query, stats, usage, steps>>

\* The part of the state an operation threads through its calls.
Cur == [capacity |-> capacity, cache |-> cache, disk |-> disk, alias |-> alias,
        shadow |-> shadow, stats |-> stats, usage |-> usage, err |-> NoErr]

NoAlias == [on |-> FALSE, pid |-> 0, idx |-> 0]

Failed(st) == st.err # NoErr

\* a local variable: the value v under the name the body K gives it
Bind(v, K(_)) == K(v)
Raise(st, e) == [st EXCEPT !.err = e]

\* ------------------------------------------------------------- DiskManager
GetNumPages(st, table) == Len(st.disk[table])

\* allocate_page: extend the file by one zero block
AllocatePage(st, table) ==
    [st EXCEPT !.disk[table] = Append(@, ZeroBlock),
               !.shadow[table] = Append(@, <<>>)]

\* write_page: page.serialize() raises before anything is written
WritePage(st, table, pid, rows) ==
    IF ~SerializeOk(rows) THEN Raise(st, "PageFullError")
    ELSE [st EXCEPT !.disk[table][pid + 1] = Serialize(rows)]

ReadPage(st, table, pid) == Deserialize(st.disk[table][pid + 1])

\* ----------------------------------------------------------- BufferManager
Frame(table, pid, rows, dirty) ==
    [table |-> table, pid |-> pid, rows |-> rows, dirty |-> dirty]

\* position of the key in the cache, 0 when not resident
FrameIndex(c, table, pid) ==
    IF \E i \in 1..Len(c) : c[i].table = table /\ c[i].pid = pid
    THEN CHOOSE i \in 1..Len(c) : c[i].table = table /\ c[i].pid = pid
    ELSE 0

RemoveAt(s, i) == SubSeq(s, 1, i - 1) \o SubSeq(s, i + 1, Len(s))

\* the counters of a pool without a stats file, and the stats file itself
\* (buffer_stats.json, written by get_stats and reset_stats)
NoStats == [hit_count |-> 0, miss_count |-> 0, evict_count |-> 0,
            file |-> [exists |-> FALSE, hit_count |-> 0, miss_count |-> 0, evict_count |-> 0]]

\* history of one pool instance: counting starts at its construction when
\* no stats file was loaded, else at its reset_stats; dropped are the tables
\* whose last catalog call was a drop_table that returned
NoUsage == [calls |-> 0, removed |-> 0, counted |-> TRUE, lru |-> <<>>, inorder |-> TRUE,
            dropped |-> {}]

\* history: the resident keys, the one used longest ago first
ByLastUse(st) ==
    SelectSeq(st.usage.lru, LAMBDA k : \E i \in 1..Len(st.cache) :
                                          <<st.cache[i].table, st.cache[i].pid>> = k)

\* history: the key becomes the one used last
Touch(st, table, pid) ==
    [st EXCEPT !.usage.lru = Append(SelectSeq(@, LAMBDA k : k # <<table, pid>>),
                                    <<table, pid>>)]

\* _evict_if_needed that drops the victim without writing it back
RECURSIVE EvictNoWriteBack(_)
EvictNoWriteBack(st) ==
    IF Len(st.cache) <= st.capacity THEN st
    ELSE EvictNoWriteBack([st EXCEPT !.cache = Tail(@), !.usage.removed = @ + 1,
                                     !.stats.evict_count = @ + 1])

\* _evict_if_needed: popitem(last=False) first, then write_page if dirty
RECURSIVE EvictIfNeeded(_)
EvictIfNeeded(st) ==
    IF Len(st.cache) <= st.capacity THEN st
    ELSE LET victim == Head(st.cache)
             popped == [st EXCEPT !.cache = Tail(@),
                                  !.usage.removed = @ + 1,
                                  !.usage.inorder =
                                      @ /\ Head(ByLastUse(st)) = <<victim.table, victim.pid>>,
                                  !.alias = IF @.on /\ victim.table = CATALOG
                                                    /\ victim.pid = @.pid
                                            THEN NoAlias ELSE @]
         IN Bind(IF victim.dirty
                 THEN WritePage(popped, victim.table, victim.pid, victim.rows)
                 ELSE popped,
                 LAMBDA written :
                     IF Failed(written) THEN written
                     ELSE EvictIfNeeded([written EXCEPT !.stats.evict_count = @ + 1]))

\* get_page: a hit moves the key to the MRU end; a miss reads, inserts, evicts.
\* First the variant whose hit leaves the key where it is.
GetPageNoMove(st, table, pid) ==
    LET i == FrameIndex(st.cache, table, pid)
        called == [st EXCEPT !.usage.calls = @ + 1]
    IN IF i > 0
       THEN Touch([called EXCEPT !.stats.hit_count = @ + 1], table, pid)
       ELSE Bind([called EXCEPT !.stats.miss_count = @ + 1], LAMBDA missed :
               IF pid >= GetNumPages(st, table) THEN Raise(missed, "IOError")
               ELSE EvictIfNeeded(Touch([missed EXCEPT !.cache =
                        Append(@, Frame(table, pid, ReadPage(st, table, pid), FALSE))],
                        table, pid)))

GetPage(st, table, pid) ==
    LET i == FrameIndex(st.cache, table, pid)
        called == [st EXCEPT !.usage.calls = @ + 1]
    IN IF i > 0
       THEN Touch([called EXCEPT !.stats.hit_count = @ + 1,
                                 !.cache = Append(RemoveAt(@, i), st.cache[i])], table, pid)
       ELSE Bind([called EXCEPT !.stats.miss_count = @ + 1], LAMBDA missed :
               IF pid >= GetNumPages(st, table) THEN Raise(missed, "IOError")
               ELSE EvictIfNeeded(Touch([missed EXCEPT !.cache =
                        Append(@, Frame(table, pid, ReadPage(st, table, pid), FALSE))],
                        table, pid)))

\* new_page that inserts its frame without evicting
NewPageNoEvict(st, table) ==
    LET a == AllocatePage(st, table)
        pid == GetNumPages(a, table) - 1
    IN Touch([a EXCEPT !.cache = Append(@, Frame(table, pid, <<>>, TRUE))], table, pid)

\* new_page: allocate, insert a blank dirty frame, evict
NewPage(st, table) ==
    LET a == AllocatePage(st, table)
        pid == GetNumPages(a, table) - 1
    IN EvictIfNeeded(Touch([a EXCEPT !.cache = Append(@, Frame(table, pid, <<>>, TRUE))],
                           table, pid))

\* mark_dirty
MarkDirty(st, table, pid) ==
    LET i == FrameIndex(st.cache, table, pid)
    IN IF i > 0 THEN [st EXCEPT !.cache[i].dirty = TRUE] ELSE st

\* flush_page
FlushPage(st, table, pid) ==
    LET i == FrameIndex(st.cache, table, pid)
    IN IF i > 0 /\ st.cache[i].dirty
       THEN Bind(WritePage(st, table, pid, st.cache[i].rows),
                 LAMBDA w : IF Failed(w) THEN w ELSE [w EXCEPT !.cache[i].dirty = FALSE])
       ELSE st

\* flush_all: frames in cache order, stopping at the first failed write
RECURSIVE FlushFrom(_, _)
FlushFrom(st, i) ==
    IF i > Len(st.cache) THEN st
    ELSE Bind(FlushPage(st, st.cache[i].table, st.cache[i].pid),
              LAMBDA w : IF Failed(w) THEN w ELSE FlushFrom(w, i + 1))

FlushAll(st) == FlushFrom(st, 1)

\* The page object get_page/new_page returned: with capacity >= 1 it is the
\* resident frame of the key, so a write to it is a write to that frame.
PageRows(st, table, pid) == st.cache[FrameIndex(st.cache, table, pid)].rows

SetPageRows(st, table, pid, rows) ==
    LET i == FrameIndex(st.cache, table, pid)
    IN IF rows = st.cache[i].rows THEN st
       ELSE [st EXCEPT !.cache[i].rows = rows, !.shadow[table][pid + 1] = rows]

\* -------------------------------------------------------------- predicates
\* a column reference is a string; the qualified references of the queries
Qualified == {"s.id", "s.cid", "c.id", "c.name"}
HasDot(ref) == ref \in Qualified

\* _extract_column_name: the part after the first dot
ExtractColumnName(ref) ==
    CASE ref = "s.id" -> "id"
      [] ref = "s.cid" -> "cid"
      [] ref = "c.id" -> "id"
      [] ref = "c.name" -> "name"
      [] OTHER -> ref

RowGet(row, col) == IF col \in DOMAIN row THEN row[col] ELSE NullV

\* eval_predicate: the right operand, its qualifier stripped, is a column
\* when it is a string that names a key of the row, a literal otherwise.
RightValue(row, right) ==
    IF right.k = "str" /\ right.pad = 0 /\ ExtractColumnName(right.s) \in DOMAIN row
    THEN row[ExtractColumnName(right.s)]
    ELSE IF right.k = "str" /\ right.pad = 0 THEN StrV(ExtractColumnName(right.s), 0)
         ELSE right

\* Python's == on the values of a row: True equals 1
IsNumber(v) == v.k \in {"int", "bool"}
PyEq(a, b) == IF IsNumber(a) /\ IsNumber(b) THEN a.i = b.i ELSE a = b

\* Python's < is defined between two numbers, two strings or two lists
Orderable(a, b) ==
    \/ IsNumber(a) /\ IsNumber(b)
    \/ a.k = "str" /\ b.k = "str"
    \/ a.k = "list" /\ b.k = "list"

\* order of the first characters of the string literals in use
Ord(s) ==
    CASE s = "a" -> 1 [] s = "b" -> 2 [] s = "x" -> 3 [] s = "y" -> 4 [] OTHER -> 0

PyLess(a, b) ==
    CASE IsNumber(a) -> a.i < b.i
      [] a.k = "str" -> Ord(a.s) < Ord(b.s) \/ (a.s = b.s /\ a.pad < b.pad)
      [] OTHER -> FALSE

\* the comparison chain of eval_predicate and Join._matches_condition:
\* "True", "False", or the TypeError Python raises for an ordering
\* comparison between None, numbers and strings
Compare(val, op, rv) ==
    LET truth(b) == IF b THEN "True" ELSE "False"
    IN CASE op = "=" -> truth(PyEq(val, rv))
         [] op \in {"<>", "!="} -> truth(~PyEq(val, rv))
         [] ~Orderable(val, rv) -> "TypeError"
         [] op = "<" -> truth(PyLess(val, rv))
         [] op = ">" -> truth(PyLess(rv, val))
         [] op = "<=" -> truth(~PyLess(rv, val))
         [] op = ">=" -> truth(~PyLess(val, rv))

\* eval_predicate: "True", "False" or "TypeError"
PredicateOutcome(row, left, op, right) ==
    Compare(RowGet(row, ExtractColumnName(left)), op, RightValue(row, right))

\* eval_predicate returned True
EvalPredicate(row, left, op, right) == PredicateOutcome(row, left, op, right) = "True"

\* and_pred of Delete.execute / Update.execute; no predicate is lambda r: True
AndPred(row, preds) ==
    \A j \in 1..Len(preds) :
        EvalPredicate(row, preds[j].left, preds[j].op, preds[j].right)

\* update_func of Update.execute: row[column] = value for the set clause
RECURSIVE UpdateFunc(_, _)
UpdateFunc(row, setClause) ==
    IF setClause = <<>> THEN row
    ELSE UpdateFunc(SetKey(row, Head(setClause).column, Head(setClause).value),
                    Tail(setClause))

\* Page.mark_deleted on the rows of one page
MarkDeletedRows(rows, preds) ==
    [i \in 1..Len(rows) |->
        IF ~IsDeleted(rows[i]) /\ AndPred(rows[i], preds)
        THEN SetKey(rows[i], DELETED, TrueV) ELSE rows[i]]

MatchCount(rows, preds) ==
    Cardinality({i \in 1..Len(rows) : ~IsDeleted(rows[i]) /\ AndPred(rows[i], preds)})

\* the loop body of update_where on the rows of one page
UpdateRows(rows, setClause, preds) ==
    [i \in 1..Len(rows) |->
        IF ~IsDeleted(rows[i]) /\ AndPred(rows[i], preds)
        THEN UpdateFunc(rows[i], setClause) ELSE rows[i]]

\* ------------------------------------------------------------ TableStorage
\* append_row
\* the second half of append_row: the row goes to a freshly allocated page
AppendToNewPage(s1, table, row) ==
    Bind(NewPage(s1, table), LAMBDA s2 :
        IF Failed(s2) THEN s2
        ELSE LET pid2 == GetNumPages(s2, table) - 1
                 b == TryAppendRow(PageRows(s2, table, pid2), row)
             IN IF ~b.ok THEN Raise(s2, "AssertionError")
                ELSE MarkDirty(SetPageRows(s2, table, pid2, b.rows), table, pid2))

AppendRow(st, table, row) ==
    LET n == GetNumPages(st, table)
        pid1 == IF n = 0 THEN 0 ELSE n - 1
    IN Bind(IF n = 0 THEN NewPage(st, table) ELSE GetPage(st, table, n - 1),
            LAMBDA s1 :
                IF Failed(s1) THEN s1
                ELSE LET a == TryAppendRow(PageRows(s1, table, pid1), row)
                     IN IF a.ok
                        THEN MarkDirty(SetPageRows(s1, table, pid1, a.rows), table, pid1)
                        ELSE AppendToNewPage(s1, table, row))

\* seq_scan: [st, rows]; rows are those yielded before an exception, if any
RECURSIVE ScanFrom(_, _, _, _, _)
ScanFrom(st, table, pid, n, acc) ==
    IF pid >= n THEN [st |-> st, rows |-> acc]
    ELSE Bind(GetPage(st, table, pid), LAMBDA g :
             IF Failed(g) THEN [st |-> g, rows |-> acc]
             ELSE ScanFrom(g, table, pid + 1, n,
                           acc \o IterLiveRows(PageRows(g, table, pid))))

SeqScan(st, table) == ScanFrom(st, table, 0, GetNumPages(st, table), <<>>)

\* delete_where: [st, count, ids]; ids (history) are the id columns of the
\* rows it tombstoned
RECURSIVE DeleteFrom(_, _, _, _, _, _, _)
DeleteFrom(st, table, preds, pid, n, count, ids) ==
    IF pid >= n THEN [st |-> st, count |-> count, ids |-> ids]
    ELSE Bind(GetPage(st, table, pid), LAMBDA g :
             IF Failed(g) THEN [st |-> g, count |-> count, ids |-> ids]
             ELSE LET rows == PageRows(g, table, pid)
                      w == SetPageRows(g, table, pid, MarkDeletedRows(rows, preds))
                      hit == {i \in 1..Len(rows) :
                                 ~IsDeleted(rows[i]) /\ AndPred(rows[i], preds)}
                  IN DeleteFrom(MarkDirty(w, table, pid), table, preds, pid + 1, n,
                                count + MatchCount(rows, preds),
                                ids \cup {RowGet(rows[i], "id").i : i \in hit}))

DeleteWhere(st, table, preds) ==
    DeleteFrom(st, table, preds, 0, GetNumPages(st, table), 0, {})

\* update_where: [st, count]
RECURSIVE UpdateFrom(_, _, _, _, _, _, _)
UpdateFrom(st, table, setClause, preds, pid, n, count) ==
    IF pid >= n THEN [st |-> st, count |-> count]
    ELSE Bind(GetPage(st, table, pid), LAMBDA g :
             IF Failed(g) THEN [st |-> g, count |-> count]
             ELSE LET rows == PageRows(g, table, pid)
                      w == SetPageRows(g, table, pid, UpdateRows(rows, setClause, preds))
                  IN UpdateFrom(MarkDirty(w, table, pid), table, setClause, preds,
                                pid + 1, n, count + MatchCount(rows, preds)))

UpdateWhere(st, table, setClause, preds) ==
    UpdateFrom(st, table, setClause, preds, 0, GetNumPages(st, table), 0)

\* ----------------------------------------------------------- SystemCatalog
ColDef(name, type) == [name |-> name, type |-> type]

CatalogColumns ==
    << ColDef("table_name", "TEXT"), ColDef("column_name", "TEXT"),
       ColDef("column_type", "TEXT"), ColDef("column_order", "INT") >>

\* the catalog_row of _register_table; the type names here are upper case
CatalogRow(table, col, i) ==
    [c \in {"table_name", "column_name", "column_type", "column_order"} |->
        CASE c = "table_name" -> StrV(table, 0)
          [] c = "column_name" -> StrV(col.name, 0)
          [] c = "column_type" -> StrV(col.type, 0)
          [] c = "column_order" -> IntV(i)]

\* the lookup with a wrong key
RowTableWrongKey(r) == RowGet(r, "name")

RowTable(r) == RowGet(r, "table_name")

\* _register_table: the membership test writes table_name -> [] into
\* _memory_tables, which is a row of the cached catalog page when the catalog
\* was constructed over an existing pg_catalog; then one append per column.
RECURSIVE RegisterFrom(_, _, _, _)
RegisterFrom(st, table, columns, i) ==
    IF i > Len(columns) THEN st
    ELSE Bind(AppendRow(st, CATALOG, CatalogRow(table, columns[i], i - 1)),
              LAMBDA a : IF Failed(a) THEN a ELSE RegisterFrom(a, table, columns, i + 1))

RegisterTable(st, table, columns) ==
    LET s1 == IF st.alias.on
              THEN LET rows == PageRows(st, CATALOG, st.alias.pid)
                       r == rows[st.alias.idx]
                   IN IF table \in DOMAIN r THEN st
                      ELSE SetPageRows(st, CATALOG, st.alias.pid,
                               [rows EXCEPT ![st.alias.idx] = SetKey(r, table, ListV)])
              ELSE st
    IN RegisterFrom(s1, table, columns, 1)

\* has_table: the scan is abandoned at the first matching row: [st, found]
RECURSIVE HasTableFrom(_, _, _, _)
HasTableFrom(st, table, pid, n) ==
    IF pid >= n THEN [st |-> st, found |-> FALSE]
    ELSE Bind(GetPage(st, CATALOG, pid), LAMBDA g :
             IF Failed(g) THEN [st |-> g, found |-> FALSE]
             ELSE LET live == IterLiveRows(PageRows(g, CATALOG, pid))
                  IN IF \E j \in 1..Len(live) : RowTable(live[j]) = StrV(table, 0)
                     THEN [st |-> g, found |-> TRUE]
                     ELSE HasTableFrom(g, table, pid + 1, n))

HasTable(st, table) == HasTableFrom(st, table, 0, GetNumPages(st, CATALOG))

\* create_table
CreateTable(st, table, columns) ==
    Bind(HasTable(st, table), LAMBDA h :
        IF Failed(h.st) THEN h.st
        ELSE IF h.found THEN Raise(h.st, "ValueError")
        ELSE Bind(RegisterTable(h.st, table, columns), LAMBDA r :
                 IF Failed(r) THEN r ELSE [r EXCEPT !.usage.dropped = @ \ {table}]))

\* the loop of drop_table that sets row["__deleted__"] = True on the rows its
\* scan collected: a row of a page that is still resident is a row of that
\* frame, a row of a page evicted during the scan is in no frame any more
DropRows(rows, table) ==
    [i \in 1..Len(rows) |->
        IF ~IsDeleted(rows[i]) /\ RowTable(rows[i]) = StrV(table, 0)
        THEN SetKey(rows[i], DELETED, TrueV) ELSE rows[i]]

RECURSIVE DropFrom(_, _, _, _)
DropFrom(st, table, pid, n) ==
    IF pid >= n THEN st
    ELSE IF FrameIndex(st.cache, CATALOG, pid) = 0 THEN DropFrom(st, table, pid + 1, n)
         ELSE DropFrom(SetPageRows(st, CATALOG, pid,
                                   DropRows(PageRows(st, CATALOG, pid), table)),
                       table, pid + 1, n)

\* drop_table
DropTable(st, table) ==
    Bind(HasTable(st, table), LAMBDA h :
        IF Failed(h.st) THEN h.st
        ELSE IF ~h.found THEN Raise(h.st, "ValueError")
        ELSE Bind(SeqScan(h.st, CATALOG), LAMBDA sc :
                 IF Failed(sc.st) THEN sc.st
                 ELSE [DropFrom(sc.st, table, 0, GetNumPages(sc.st, CATALOG))
                          EXCEPT !.usage.dropped = @ \cup {table}]))

\* list_tables: [st, tables]
ListTables(st) ==
    Bind(SeqScan(st, CATALOG), LAMBDA sc :
        [st |-> sc.st,
         tables |-> {RowTable(sc.rows[j]).s : j \in 1..Len(sc.rows)} \ {CATALOG, ""}])

\* the sort key of get_table_columns: a scan abandoned at the first row of
\* the table with that column name: [st, order]
RECURSIVE ColumnOrderFrom(_, _, _, _, _)
ColumnOrderFrom(st, table, name, pid, n) ==
    IF pid >= n THEN [st |-> st, order |-> 0]
    ELSE Bind(GetPage(st, CATALOG, pid), LAMBDA g :
             IF Failed(g) THEN [st |-> g, order |-> 0]
             ELSE LET live == IterLiveRows(PageRows(g, CATALOG, pid))
                      hits == {j \in 1..Len(live) :
                                  /\ RowTable(live[j]) = StrV(table, 0)
                                  /\ RowGet(live[j], "column_name") = StrV(name, 0)}
                  IN IF hits # {}
                     THEN [st |-> g, order |->
                              RowGet(live[CHOOSE j \in hits : \A h \in hits : j <= h],
                                     "column_order").i]
                     ELSE ColumnOrderFrom(g, table, name, pid + 1, n))

\* the keys of all columns, computed in list order: [st, keys]
RECURSIVE SortKeys(_, _, _, _, _)
SortKeys(st, table, columns, i, keys) ==
    IF i > Len(columns) THEN [st |-> st, keys |-> keys]
    ELSE Bind(ColumnOrderFrom(st, table, columns[i].name, 0, GetNumPages(st, CATALOG)),
              LAMBDA k :
                  IF Failed(k.st) THEN [st |-> k.st, keys |-> keys]
                  ELSE SortKeys(k.st, table, columns, i + 1, Append(keys, k.order)))

\* list.sort(key=...): stable
RECURSIVE InsertSorted(_, _, _)
InsertSorted(sorted, x, key) ==
    IF sorted = <<>> THEN << <<x, key>> >>
    ELSE IF Head(sorted)[2] <= key
         THEN <<Head(sorted)>> \o InsertSorted(Tail(sorted), x, key)
         ELSE << <<x, key>> >> \o sorted

RECURSIVE StableSort(_, _, _)
StableSort(columns, keys, i) ==
    IF i = 0 THEN <<>>
    ELSE InsertSorted(StableSort(columns, keys, i - 1), columns[i], keys[i])

\* get_table_columns: [st, columns]
\* the columns list of get_table_columns before it is sorted
ColumnsOf(rows, table) ==
    LET mine == SelectSeq(rows, LAMBDA r : RowTable(r) = StrV(table, 0))
    IN [j \in 1..Len(mine) |->
           ColDef(RowGet(mine[j], "column_name").s, RowGet(mine[j], "column_type").s)]

SortColumns(st, table, cols) ==
    Bind(SortKeys(st, table, cols, 1, <<>>), LAMBDA k :
        IF Failed(k.st) THEN [st |-> k.st, columns |-> <<>>]
        ELSE LET sorted == StableSort(cols, k.keys, Len(cols))
             IN [st |-> k.st, columns |-> [j \in 1..Len(sorted) |-> sorted[j][1]]])

GetTableColumns(st, table) ==
    Bind(SeqScan(st, CATALOG), LAMBDA sc :
        IF Failed(sc.st) THEN [st |-> sc.st, columns |-> <<>>]
        ELSE SortColumns(sc.st, table, ColumnsOf(sc.rows, table)))

\* _init_catalog_table: _memory_tables is left bound to the last scanned row
\* whose table_name is pg_catalog; without such a row the catalog registers
\* its own schema
LastOwnRow(st) ==
    LET n == GetNumPages(st, CATALOG)
        own == UNION {{<<pid, i>> : i \in {j \in 1..Len(ReadPage(st, CATALOG, pid)) :
                          /\ ~IsDeleted(ReadPage(st, CATALOG, pid)[j])
                          /\ RowTable(ReadPage(st, CATALOG, pid)[j]) = StrV(CATALOG, 0)}}
                      : pid \in 0..(n - 1)}
    IN CHOOSE pi \in own : \A q \in own :
           q[1] < pi[1] \/ (q[1] = pi[1] /\ q[2] <= pi[2])

InitCatalogTableAlways(st) ==
    Bind(SeqScan(st, CATALOG), LAMBDA sc :
        IF Failed(sc.st) THEN sc.st
        ELSE RegisterTable([sc.st EXCEPT !.alias = NoAlias], CATALOG, CatalogColumns))

InitCatalogTable(st) ==
    Bind(SeqScan(st, CATALOG), LAMBDA sc :
        IF Failed(sc.st) THEN sc.st
        ELSE IF StrV(CATALOG, 0) \notin {RowTable(sc.rows[j]) : j \in 1..Len(sc.rows)}
        THEN RegisterTable([sc.st EXCEPT !.alias = NoAlias], CATALOG, CatalogColumns)
        ELSE LET last == LastOwnRow(sc.st)
             IN [sc.st EXCEPT !.alias =
                    [on |-> FrameIndex(sc.st.cache, CATALOG, last[1]) > 0,
                     pid |-> last[1], idx |-> last[2]]])

\* what GET /schema answers: every listed table with its columns: [err, tables]
RECURSIVE SchemaFrom(_, _, _)
SchemaFrom(st, todo, acc) ==
    IF todo = {} THEN [err |-> NoErr, tables |-> acc]
    ELSE LET t == CHOOSE x \in todo : TRUE
         IN Bind(GetTableColumns(st, t), LAMBDA c :
                IF Failed(c.st) THEN [err |-> c.st.err, tables |-> acc]
                ELSE SchemaFrom(c.st, todo \ {t}, SetKey(acc, t, c.columns)))

Schema(st) ==
    Bind(ListTables(st), LAMBDA lt :
        IF Failed(lt.st) THEN [err |-> lt.st.err, tables |-> <<>>]
        ELSE SchemaFrom(lt.st, lt.tables, <<>>))

\* ------------------------------------------------------- SemanticAnalyzer
\* str.lower() on the names in use: Catalog keys its tables by name.lower()
Lower(name) == CASE name = "T" -> "t" [] OTHER -> name

\* _snapshot_runtime_catalog: [st, cat, err]; the set list_tables returns is
\* walked in an arbitrary order, which is immaterial while pg_catalog is one page
RECURSIVE SnapshotFrom(_, _, _)
SnapshotFrom(st, todo, cat) ==
    IF todo = {} THEN [st |-> st, cat |-> cat]
    ELSE LET t == CHOOSE x \in todo : TRUE
         IN Bind(GetTableColumns(st, t), LAMBDA c :
                IF Failed(c.st) THEN [st |-> c.st, cat |-> cat]
                ELSE IF Lower(t) \in DOMAIN cat
                     THEN [st |-> Raise(c.st, "ValueError"), cat |-> cat]
                     ELSE SnapshotFrom(c.st, todo \ {t}, SetKey(cat, Lower(t), c.columns)))

\* a snapshot that is the catalog the server was started with
SnapshotAtStart(st) == [st |-> st, cat |-> <<>>]

SnapshotRuntimeCatalog(st) ==
    Bind(ListTables(st), LAMBDA lt :
        IF Failed(lt.st) THEN [st |-> lt.st, cat |-> <<>>]
        ELSE SnapshotFrom(lt.st, lt.tables, <<>>))

TypeNames == {"INT", "TEXT", "VARCHAR"}

\* _check_create_table
CheckCreateTable(cat, table, columns) ==
    IF Lower(table) \in DOMAIN cat THEN "SemanticError"
    ELSE IF \E i, j \in 1..Len(columns) :
                i < j /\ Lower(columns[i].name) = Lower(columns[j].name)
         THEN "SemanticError"
    ELSE IF \E i \in 1..Len(columns) : columns[i].type \notin TypeNames
         THEN "SemanticError"
    ELSE NoErr

KindOk(v, type) ==
    /\ type = "INT" => v.k = "int"
    /\ type \in {"TEXT", "VARCHAR"} => v.k = "str"

\* _check_insert for a statement without a column list
CheckInsert(cat, table, values) ==
    IF Lower(table) \notin DOMAIN cat THEN "SemanticError"
    ELSE LET cols == cat[Lower(table)]
         IN IF \E r \in 1..Len(values) :
                   \/ Len(values[r]) # Len(cols)
                   \/ \E c \in 1..Len(cols) : ~KindOk(values[r][c], cols[c].type)
            THEN "SemanticError" ELSE NoErr

\* --------------------------------------------------------------- operators
\* the row Insert.execute builds: every column null, then the zipped values
InsertRow(cols, rowValues) ==
    [c \in {cols[j].name : j \in 1..Len(cols)} |->
        LET js == {j \in 1..Len(cols) : cols[j].name = c /\ j <= Len(rowValues)}
        IN IF js = {} THEN NullV
           ELSE rowValues[CHOOSE j \in js : \A h \in js : h <= j]]

\* Insert.execute: [st, count, rows], rows being the rows appended
RECURSIVE InsertFrom(_, _, _, _, _)
InsertFrom(st, table, cols, values, i) ==
    IF i > Len(values)
    THEN [st |-> st, count |-> i - 1,
          rows |-> [j \in 1..(i - 1) |-> InsertRow(cols, values[j])]]
    ELSE Bind(AppendRow(st, table, InsertRow(cols, values[i])), LAMBDA a :
             IF Failed(a)
             THEN [st |-> a, count |-> i - 1,
                   rows |-> [j \in 1..(i - 1) |-> InsertRow(cols, values[j])]]
             ELSE InsertFrom(a, table, cols, values, i + 1))

InsertExecute(st, table, values) ==
    Bind(GetTableColumns(st, table), LAMBDA cm :
        IF Failed(cm.st) THEN [st |-> cm.st, count |-> 0, rows |-> <<>>]
        ELSE InsertFrom(cm.st, table, cm.columns, values, 1))

\* ---------------------------------------------------- compile_and_execute
\* CREATE TABLE: snapshot, semantic check, CreateTable.execute
RunCreateTable(st, table, columns) ==
    Bind(SnapshotRuntimeCatalog(st), LAMBDA sn :
        IF Failed(sn.st) THEN sn.st
        ELSE IF CheckCreateTable(sn.cat, table, columns) # NoErr
             THEN Raise(sn.st, "SemanticError")
             ELSE CreateTable(sn.st, table, columns))

\* INSERT: snapshot, semantic check, Insert.execute: [st, count, rows]
RunInsert(st, table, values) ==
    Bind(SnapshotRuntimeCatalog(st), LAMBDA sn :
        IF Failed(sn.st) THEN [st |-> sn.st, count |-> 0, rows |-> <<>>]
        ELSE IF CheckInsert(sn.cat, table, values) # NoErr
             THEN [st |-> Raise(sn.st, "SemanticError"), count |-> 0, rows |-> <<>>]
             ELSE InsertExecute(sn.st, table, values))

\* ------------------------------------------------------------------ inputs
Capacities == 1..MaxCapacity
PageIds == 0..(MaxPages - 1)

UserRow(id, text) == [c \in {"id", "v"} |-> IF c = "id" THEN IntV(id) ELSE text]
RowId(r) == RowGet(r, "id").i

Comparison(left, op, right) == [left |-> left, op |-> op, right |-> right]
Predicates == {<<>>} \cup {<<Comparison("id", "=", IntV(k))>> : k \in 1..MaxPredId}
SetClauses == {<<[column |-> "v", value |-> x]>> : x \in TextValues}

ColumnLists == { <<ColDef("id", "INT"), ColDef("v", "TEXT")>>, <<ColDef("id", "INT")>> }

\* the TEXT values of the rows of one INSERT statement (one literal repeated);
\* the ids are consecutive from nextId
ValueLists ==
    {[j \in 1..n |-> x] : n \in 1..MaxValues, x \in TextValues}

InsertValues(texts) == [j \in 1..Len(texts) |-> <<IntV(nextId + j - 1), texts[j]>>]

\* ----------------------------------------------------------------- history
Op(name, table, st, count, rows) ==
    [op |-> name, table |-> table, err |-> st.err, count |-> count, rows |-> rows,
     preds |-> <<>>, set |-> <<>>,
     evicted |-> Cardinality({i \in 1..Len(cache) :
                     FrameIndex(st.cache, cache[i].table, cache[i].pid) = 0})]

NoObs == [phase |-> "none", table |-> "", rows |-> <<>>, n |-> 0]

RECURSIVE Concat(_)
Concat(pages) == IF pages = <<>> THEN <<>> ELSE Head(pages) \o Concat(Tail(pages))

\* what the program holds for a page: the resident frame, the file otherwise
View(table, pid) ==
    IF FrameIndex(cache, table, pid) > 0
    THEN cache[FrameIndex(cache, table, pid)].rows
    ELSE Deserialize(disk[table][pid + 1])

TableView(table) == Concat([p \in 1..Len(disk[table]) |-> View(table, p - 1)])

Commit(st) ==
    /\ cache' = st.cache
    /\ disk' = st.disk
    /\ alias' = st.alias
    /\ shadow' = st.shadow
    /\ capacity' = capacity
    /\ stats' = st.stats
    /\ usage' = st.usage
    /\ query' = query
    /\ steps' = steps + 1

\* ----------------------------------------------------------------- Planner
\* the statements here have no ORDER BY and no HAVING
PlanNode(name, args, children) == [name |-> name, args |-> args, children |-> children]

\* parser.LogicalExpression; a parser.Comparison is a condition without it
Logical(left, op, right) == [kind |-> "logical", op |-> op, left |-> left, right |-> right]
NoCondition == [kind |-> "none"]
IsComparison(cond) == "kind" \notin DOMAIN cond

\* Planner._flatten_condition: AND and OR both concatenate their sides
RECURSIVE FlattenCondition(_)
FlattenCondition(cond) ==
    IF IsComparison(cond) THEN <<cond>>
    ELSE IF cond.kind = "logical"
         THEN FlattenCondition(cond.left) \o FlattenCondition(cond.right)
         ELSE <<>>

\* Planner._add_filters
RECURSIVE AddFilters(_, _)
AddFilters(node, preds) ==
    IF preds = <<>> THEN node
    ELSE AddFilters(PlanNode("Filter", [predicate |-> Head(preds)], <<node>>), Tail(preds))

\* Planner._predicate_involves_table
PredicateInvolvesTable(pred, table) == TRUE

\* the JOIN loop of _plan_select: [node, preds], preds the WHERE comparisons
\* not yet placed
RECURSIVE PlanJoins(_, _, _)
PlanJoins(node, joins, preds) ==
    IF joins = <<>> THEN [node |-> node, preds |-> preds]
    ELSE PlanJoins(
            PlanNode("Join",
                     [join_type |-> Head(joins).join_type, on_condition |-> Head(joins).on],
                     <<node,
                       AddFilters(PlanNode("SeqScan", [table |-> Head(joins).table], <<>>),
                                  <<Head(joins).on>> \o
                                  SelectSeq(preds, LAMBDA p :
                                      PredicateInvolvesTable(p, Head(joins).table)))>>),
            Tail(joins),
            SelectSeq(preds, LAMBDA p : ~PredicateInvolvesTable(p, Head(joins).table)))

\* the GROUP BY step of _plan_select
PlanGroupBy(node, stmt) ==
    IF stmt.group_by = <<>> THEN node
    ELSE PlanNode("GroupBy", [columns |-> stmt.group_by], <<node>>)

\* the ORDER BY step of _plan_select
PlanOrderBy(node, stmt) ==
    IF stmt.order_by = <<>> THEN node
    ELSE PlanNode("OrderBy", [order_specs |-> stmt.order_by], <<node>>)

\* the projection step of _plan_select: Aggregate below Project
Star == <<[kind |-> "col", column |-> "*", func |-> "", alias |-> ""]>>

PlanAggregate(node, stmt) ==
    IF SelectSeq(stmt.columns, LAMBDA c : c.kind = "agg") = <<>> THEN node
    ELSE PlanNode("Aggregate",
                  [functions |-> SelectSeq(stmt.columns, LAMBDA c : c.kind = "agg")],
                  <<node>>)

PlanProject(node, stmt) ==
    IF SelectSeq(stmt.columns, LAMBDA c : c.kind # "agg") = <<>> THEN node
    ELSE PlanNode("Project",
                  [columns |-> SelectSeq(stmt.columns, LAMBDA c : c.kind # "agg")],
                  <<node>>)

\* Planner._plan_select
PlanSelect(stmt) ==
    Bind(PlanJoins(PlanNode("SeqScan", [table |-> stmt.table], <<>>), stmt.joins,
                   FlattenCondition(stmt.where)),
         LAMBDA j :
            Bind(PlanOrderBy(PlanGroupBy(AddFilters(j.node, j.preds), stmt), stmt), LAMBDA g :
                IF stmt.columns = Star THEN g
                ELSE PlanProject(PlanAggregate(g, stmt), stmt)))

\* ---------------------------------------------------------- query operators
\* what an operator's execute() hands to list(): the rows, or the exception
Rows(rows) == [err |-> NoErr, rows |-> rows]
Raised(e) == [err |-> e, rows |-> <<>>]

\* Filter.execute
ExecFilter(child, p) ==
    IF child.err # NoErr THEN child
    ELSE IF \E i \in 1..Len(child.rows) :
                PredicateOutcome(child.rows[i], p.left, p.op, p.right) = "TypeError"
         THEN Raised("TypeError")
         ELSE Rows(SelectSeq(child.rows,
                             LAMBDA r : EvalPredicate(r, p.left, p.op, p.right)))

\* Project._get_column_value: the key itself, else a key ending in ".name"
GetColumnValue(row, name) ==
    IF name \in DOMAIN row THEN row[name]
    ELSE IF \E key \in DOMAIN row :
                HasDot(key) /\ ~HasDot(name) /\ ExtractColumnName(key) = name
         THEN row[CHOOSE key \in DOMAIN row :
                    HasDot(key) /\ ~HasDot(name) /\ ExtractColumnName(key) = name]
         ELSE NullV

\* Join._merge_rows_with_aliases; left_table_alias and right_table_alias are
\* None in every plan the planner builds, so the keys are merged as they are
MergeRows(left, right) ==
    [key \in DOMAIN left \cup DOMAIN right |->
        IF key \in DOMAIN right THEN right[key] ELSE left[key]]

\* the loop body of Project.execute for one row
RECURSIVE ProjectRow(_, _, _)
ProjectRow(row, columns, result) ==
    IF columns = <<>> THEN result
    ELSE ProjectRow(row, Tail(columns),
            IF Head(columns).column = "*" /\ Head(columns).alias = ""
            THEN MergeRows(result, row)
            ELSE SetKey(result,
                        IF Head(columns).alias = "" THEN Head(columns).column
                        ELSE Head(columns).alias,
                        GetColumnValue(row, Head(columns).column)))

EmptyRow == [key \in {} |-> NullV]

\* Project.execute
ExecProject(child, columns) ==
    IF child.err # NoErr THEN child
    ELSE Rows([i \in 1..Len(child.rows) |-> ProjectRow(child.rows[i], columns, EmptyRow)])

\* Join._matches_condition: "True", "False" or "TypeError"
MatchesCondition(leftRow, rightRow, on) ==
    Compare(RowGet(leftRow, ExtractColumnName(on.left)), on.op,
            RowGet(rightRow, ExtractColumnName(on.right.s)))

\* the right-hand row of an unmatched left row of a LEFT join
NullRightRow(rightRows) ==
    IF rightRows = <<>> THEN EmptyRow
    ELSE [key \in DOMAIN rightRows[1] |-> NullV]

\* the rows Join.execute yields for one left row
JoinRowsFor(leftRow, rightRows, joinType, on) ==
    Bind(SelectSeq(rightRows, LAMBDA r : MatchesCondition(leftRow, r, on) = "True"),
         LAMBDA hits :
            IF hits = <<>> /\ joinType = "LEFT"
            THEN <<MergeRows(leftRow, NullRightRow(rightRows))>>
            ELSE [k \in 1..Len(hits) |-> MergeRows(leftRow, hits[k])])

\* Join.execute: the right input is collected first
ExecJoin(left, right, joinType, on) ==
    IF right.err # NoErr THEN right
    ELSE IF left.err # NoErr THEN left
    ELSE IF \E i \in 1..Len(left.rows), k \in 1..Len(right.rows) :
                MatchesCondition(left.rows[i], right.rows[k], on) = "TypeError"
         THEN Raised("TypeError")
         ELSE Rows(Concat([i \in 1..Len(left.rows) |->
                              JoinRowsFor(left.rows[i], right.rows, joinType, on)]))

GROUP_ROWS == "__group_rows__"

\* the group key GroupBy.execute builds for a row
GroupKey(row, columns) == [i \in 1..Len(columns) |-> RowGet(row, columns[i])]

\* GroupBy.execute: one row per group key, in order of first appearance,
\* carrying the rows of the group
ExecGroupBy(child, columns) ==
    IF child.err # NoErr THEN child
    ELSE Bind(SelectSeq([i \in 1..Len(child.rows) |-> i],
                        LAMBDA i : \A h \in 1..(i - 1) :
                            GroupKey(child.rows[h], columns) # GroupKey(child.rows[i], columns)),
              LAMBDA firsts :
                Rows([g \in 1..Len(firsts) |->
                        [key \in {columns[i] : i \in 1..Len(columns)} \cup {GROUP_ROWS} |->
                            IF key = GROUP_ROWS
                            THEN [k |-> "rows", i |-> 0, s |-> "", pad |-> 0,
                                  rows |-> SelectSeq(child.rows, LAMBDA r :
                                      GroupKey(r, columns) =
                                      GroupKey(child.rows[firsts[g]], columns))]
                            ELSE RowGet(child.rows[firsts[g]], key)]]))

RECURSIVE SumValues(_)
SumValues(values) ==
    IF values = <<>> THEN 0 ELSE Head(values).i + SumValues(Tail(values))

\* the value Aggregate.execute computes for one function over the rows of a
\* group; COUNT, SUM, MIN and MAX are the functions of the statements here.
\* sum() raises TypeError for a string, min() and max() for values that have
\* no order.
AggValue(f, group) ==
    Bind(SelectSeq([i \in 1..Len(group) |-> RowGet(group[i], f.column)],
                   LAMBDA v : v # NullV),
         LAMBDA values :
            CASE f.func = "COUNT" ->
                    IF f.column = "" THEN IntV(Len(group)) ELSE IntV(Len(values))
              [] f.func = "SUM" ->
                    IF f.column = "" THEN IntV(0)
                    ELSE IF \E i \in 1..Len(values) : ~IsNumber(values[i])
                         THEN [k |-> "TypeError", i |-> 0, s |-> "", pad |-> 0]
                         ELSE IntV(SumValues(values))
              [] f.func \in {"MIN", "MAX"} ->
                    IF f.column = "" \/ values = <<>> THEN NullV
                    ELSE IF \E i, j \in 1..Len(values) : ~Orderable(values[i], values[j])
                         THEN [k |-> "TypeError", i |-> 0, s |-> "", pad |-> 0]
                         ELSE values[CHOOSE i \in 1..Len(values) :
                                 /\ \A j \in 1..Len(values) :
                                       IF f.func = "MIN" THEN ~PyLess(values[j], values[i])
                                       ELSE ~PyLess(values[i], values[j])
                                 /\ \A j \in 1..(i - 1) : ~PyEq(values[j], values[i])])

\* the key of an aggregate column: the alias, else FUNC(column) or FUNC(*)
AggName(f) ==
    IF f.alias # "" THEN f.alias
    ELSE f.func \o "(" \o (IF f.column = "" THEN "*" ELSE f.column) \o ")"

RECURSIVE AggRow(_, _, _)
AggRow(base, group, functions) ==
    IF functions = <<>> THEN base
    ELSE AggRow(SetKey(base, AggName(Head(functions)), AggValue(Head(functions), group)),
                group, Tail(functions))

\* Aggregate.execute: one row per group row of the child; over a child
\* without groups one row for all its rows, and no row when it yields none
ExecAggregate(child, functions) ==
    IF child.err # NoErr THEN child
    ELSE IF child.rows = <<>> THEN Rows(<<>>)
    ELSE Bind(IF GROUP_ROWS \in DOMAIN child.rows[1]
              THEN [i \in 1..Len(child.rows) |->
                      AggRow([key \in DOMAIN child.rows[i] \ {GROUP_ROWS} |->
                                 child.rows[i][key]],
                             child.rows[i][GROUP_ROWS].rows, functions)]
              ELSE <<AggRow(EmptyRow, child.rows, functions)>>,
              LAMBDA out :
                IF \E i \in 1..Len(out) : \E key \in DOMAIN out[i] :
                        out[i][key].k = "TypeError"
                THEN Raised("TypeError")
                ELSE Rows(out))

\* float('-inf'), the sort value of a null under either direction: ASC takes
\* -inf, DESC takes inf and negates it with the numbers
NegInf == [k |-> "float", i |-> 0, s |-> "-inf", pad |-> 0]

\* one element of sort_key: numbers are negated under DESC, strings are not
SortValue(v, direction) ==
    IF v = NullV THEN NegInf
    ELSE IF direction = "DESC" /\ IsNumber(v) THEN [v EXCEPT !.k = "int", !.i = 0 - v.i]
    ELSE v

SortKey(row, specs) ==
    [j \in 1..Len(specs) |-> SortValue(RowGet(row, specs[j].column), specs[j].direction)]

\* the first position where two key lists differ, 0 when they are equal
FirstDifference(a, b) ==
    IF \E j \in 1..Len(a) : ~PyEq(a[j], b[j])
    THEN CHOOSE j \in 1..Len(a) : ~PyEq(a[j], b[j]) /\ \A h \in 1..(j - 1) : PyEq(a[h], b[h])
    ELSE 0

\* list < list: decided by the first elements that differ, which must be two
\* numbers (-inf included) or two strings, else TypeError
KeyComparable(a, b) ==
    Bind(FirstDifference(a, b), LAMBDA d :
        \/ d = 0
        \/ a[d].k \in {"int", "bool", "float"} /\ b[d].k \in {"int", "bool", "float"}
        \/ a[d].k = "str" /\ b[d].k = "str")

KeyLess(a, b) ==
    Bind(FirstDifference(a, b), LAMBDA d :
        /\ d > 0
        /\ IF a[d] = NegInf THEN TRUE
           ELSE IF b[d] = NegInf THEN FALSE
           ELSE PyLess(a[d], b[d]))

\* OrderBy.execute: list.sort(key=sort_key), a stable sort.  A row with rank
\* r has r - 1 rows before it: those with a smaller key and the earlier ones
\* with an equal key.  The sort raises when it compares two keys that have
\* no order.
ExecOrderBy(child, specs) ==
    IF child.err # NoErr THEN child
    ELSE Bind([i \in 1..Len(child.rows) |-> SortKey(child.rows[i], specs)], LAMBDA keys :
            IF \E i, j \in 1..Len(keys) : ~KeyComparable(keys[i], keys[j])
            THEN Raised("TypeError")
            ELSE Rows([r \in 1..Len(keys) |->
                    child.rows[CHOOSE i \in 1..Len(keys) :
                        Cardinality({j \in 1..Len(keys) :
                            \/ KeyLess(keys[j], keys[i])
                            \/ (~KeyLess(keys[i], keys[j]) /\ j < i)}) = r - 1]]))

\* Executor._build_pipeline and list(root_op.execute()); scans[table] is
\* what SeqScan.execute (table.seq_scan()) yields for the table
RECURSIVE ExecutePlan(_, _)
ExecutePlan(node, scans) ==
    CASE node.name = "SeqScan" -> scans[node.args.table]
      [] node.name = "Filter" ->
            ExecFilter(ExecutePlan(node.children[1], scans), node.args.predicate)
      [] node.name = "Project" ->
            ExecProject(ExecutePlan(node.children[1], scans), node.args.columns)
      [] node.name = "Join" ->
            ExecJoin(ExecutePlan(node.children[1], scans),
                     ExecutePlan(node.children[2], scans),
                     node.args.join_type, node.args.on_condition)
      [] node.name = "GroupBy" ->
            ExecGroupBy(ExecutePlan(node.children[1], scans), node.args.columns)
      [] node.name = "OrderBy" ->
            ExecOrderBy(ExecutePlan(node.children[1], scans), node.args.order_specs)
      [] node.name = "Aggregate" ->
            ExecAggregate(ExecutePlan(node.children[1], scans), node.args.functions)

\* ------------------------------------------------------------ SELECT check
TablePart(ref) ==
    CASE ref \in {"s.id", "s.cid"} -> "s"
      [] ref \in {"c.id", "c.name"} -> "c"
      [] OTHER -> ""

ColumnNames(cat, table) == {cat[Lower(table)][i].name : i \in 1..Len(cat[Lower(table)])}

\* _check_column_reference; without table aliases the names of table_aliases
\* are the tables of the statement
CheckColumnReference(cat, ref, tables) ==
    IF HasDot(ref)
    THEN /\ TablePart(ref) \in tables
         /\ ExtractColumnName(ref) \in ColumnNames(cat, TablePart(ref))
    ELSE \E t \in tables : ref \in ColumnNames(cat, t)

\* _check_comparison of a SELECT: a string on the right is checked as a
\* column reference
CheckComparison(cat, comp, tables) ==
    /\ CheckColumnReference(cat, comp.left, tables)
    /\ comp.right.k = "str" => CheckColumnReference(cat, comp.right.s, tables)

\* _check_select
CheckSelect(cat, stmt) ==
    IF \E t \in {stmt.table} \cup {stmt.joins[i].table : i \in 1..Len(stmt.joins)} :
            Lower(t) \notin DOMAIN cat
    THEN "SemanticError"
    ELSE Bind({stmt.table} \cup {stmt.joins[i].table : i \in 1..Len(stmt.joins)},
              LAMBDA tables :
                IF /\ \A i \in 1..Len(stmt.columns) :
                        stmt.columns[i].column \in {"*", ""}
                        \/ CheckColumnReference(cat, stmt.columns[i].column, tables)
                   /\ \A i \in 1..Len(stmt.joins) :
                        CheckComparison(cat, stmt.joins[i].on, tables)
                   /\ \A i \in 1..Len(FlattenCondition(stmt.where)) :
                        CheckComparison(cat, FlattenCondition(stmt.where)[i], tables)
                   /\ \A i \in 1..Len(stmt.group_by) :
                        CheckColumnReference(cat, stmt.group_by[i], tables)
                   /\ \A i \in 1..Len(stmt.order_by) :
                        CheckColumnReference(cat, stmt.order_by[i].column, tables)
                THEN NoErr ELSE "SemanticError")

\* compile_and_execute of a SELECT over the rows scans[table] the tables hold
SelectStatement(cat, scans, stmt) ==
    IF CheckSelect(cat, stmt) # NoErr THEN Raised("SemanticError")
    ELSE ExecutePlan(PlanSelect(stmt), scans)

\* ------------------------------------------------------------------ queries
\* the schema of the queried tables s(id INT, cid INT) and c(id INT, name TEXT)
QueryCatalog ==
    [s |-> <<ColDef("id", "INT"), ColDef("cid", "INT")>>,
     c |-> <<ColDef("id", "INT"), ColDef("name", "TEXT")>>]

\* rows INSERT statements can have stored; cid is null after INSERT INTO s (id)
SRows == {[id |-> IntV(i), cid |-> v] : i \in {1, 10}, v \in {IntV(10), NullV}}
CRows == {[id |-> IntV(i), name |-> StrV(n, 0)] : i \in {10, 20}, n \in {"x", "y"}}
SeqsUpTo(S, n) == UNION {[1..k -> S] : k \in 0..n}

Col(name) == [kind |-> "col", column |-> name, func |-> "", alias |-> ""]
Agg(func, column) == [kind |-> "agg", column |-> column, func |-> func, alias |-> ""]
JoinClause(table, joinType, on) == [table |-> table, join_type |-> joinType, on |-> on]
Select(columns, table, joins, where, groupBy) ==
    [columns |-> columns, table |-> table, joins |-> joins, where |-> where,
     group_by |-> groupBy, order_by |-> <<>>]
OrderSpec(column, direction) == [column |-> column, direction |-> direction]
OrderedBy(stmt, specs) == [stmt EXCEPT !.order_by = specs]

Ops == {"=", "<>", "<", ">", "<=", ">="}

\* SELECT s.id, c.name FROM s JOIN c ON s.cid = c.id
JoinSelect ==
    Select(<<Col("s.id"), Col("c.name")>>, "s",
           <<JoinClause("c", "INNER", Comparison("s.cid", "=", StrV("c.id", 0)))>>,
           NoCondition, <<>>)

\* SELECT * FROM s LEFT JOIN c ON s.cid = c.id
LeftJoinSelect ==
    Select(Star, "s",
           <<JoinClause("c", "LEFT", Comparison("s.cid", "=", StrV("c.id", 0)))>>,
           NoCondition, <<>>)

\* SELECT cid, SUM(id) FROM s GROUP BY cid
GroupSelect == Select(<<Col("cid"), Agg("SUM", "id")>>, "s", <<>>, NoCondition, <<"cid">>)

\* SELECT cid, name FROM s JOIN c ON <left> = c.id WHERE cid = 10 [AND s.id = 10]
WhereJoinSelects ==
    {Select(<<Col("cid"), Col("name")>>, "s",
            <<JoinClause("c", "INNER", Comparison(left, "=", StrV("c.id", 0)))>>,
            where, <<>>) :
        left \in {"s.cid", "s.id"},
        where \in {Comparison("cid", "=", IntV(10)),
                   Logical(Comparison("cid", "=", IntV(10)), "AND",
                           Comparison("s.id", "=", IntV(10)))}}

\* SELECT * FROM s WHERE cid <op> 10 | cid <op> cid;  SELECT * FROM c WHERE id <op> name
FilterSelects ==
    {Select(Star, "s", <<>>, Comparison("cid", op, right), <<>>) :
        op \in Ops, right \in {IntV(10), StrV("cid", 0)}}
    \cup {Select(Star, "c", <<>>, Comparison("id", op, StrV("name", 0)), <<>>) : op \in Ops}

\* SELECT COUNT(*), COUNT(cid), SUM(cid), MIN(cid), MAX(cid) FROM s
AggregateSelect ==
    Select(<<Agg("COUNT", ""), Agg("COUNT", "cid"), Agg("SUM", "cid"), Agg("MIN", "cid"),
             Agg("MAX", "cid")>>, "s", <<>>, NoCondition, <<>>)

\* SELECT SUM(id) FROM s;  SELECT COUNT(*) FROM s GROUP BY cid;  SELECT v FROM s
OtherSelects ==
    {AggregateSelect,
     Select(<<Agg("SUM", "id")>>, "s", <<>>, NoCondition, <<>>),
     Select(<<Agg("COUNT", "")>>, "s", <<>>, NoCondition, <<"cid">>),
     Select(<<Col("v")>>, "s", <<>>, NoCondition, <<>>)}

\* SELECT * FROM s ORDER BY cid [DESC] [, id];  SELECT * FROM c ORDER BY name [DESC] [, id DESC]
OrderSelects ==
    {OrderedBy(Select(Star, "s", <<>>, NoCondition, <<>>), specs) :
        specs \in {<<OrderSpec("cid", d)>> : d \in {"ASC", "DESC"}}
                  \cup {<<OrderSpec("cid", "DESC"), OrderSpec("id", "ASC")>>}}
    \cup {OrderedBy(Select(Star, "c", <<>>, NoCondition, <<>>), specs) :
        specs \in {<<OrderSpec("name", d)>> : d \in {"ASC", "DESC"}}
                  \cup {<<OrderSpec("name", "DESC"), OrderSpec("id", "DESC")>>}}

Selects ==
    {JoinSelect, LeftJoinSelect, GroupSelect} \cup WhereJoinSelects \cup FilterSelects
    \cup OtherSelects \cup OrderSelects

NoQuery ==
    [tables |-> [s |-> <<>>, c |-> <<>>], ran |-> FALSE, stmt |-> Select(Star, "", <<>>,
     NoCondition, <<>>), err |-> NoErr, rows |-> <<>>]

\* -------------------------------------------------------------- http_execute
\* _check_delete
CheckDelete(cat, table, preds) ==
    IF Lower(table) \notin DOMAIN cat THEN "SemanticError"
    ELSE IF \A i \in 1..Len(preds) :
               \E c \in 1..Len(cat[Lower(table)]) :
                  /\ cat[Lower(table)][c].name = preds[i].left
                  /\ KindOk(preds[i].right, cat[Lower(table)][c].type)
         THEN NoErr ELSE "SemanticError"

\* the outcome of one statement: st.err is the exception, if any
Outcome(st, count, rows, ids) == [st |-> st, count |-> count, rows |-> rows, ids |-> ids]

\* DELETE: snapshot, semantic check, Delete.execute
RunDelete(st, table, preds) ==
    Bind(SnapshotRuntimeCatalog(st), LAMBDA sn :
        IF Failed(sn.st) THEN Outcome(sn.st, 0, <<>>, {})
        ELSE IF CheckDelete(sn.cat, table, preds) # NoErr
             THEN Outcome(Raise(sn.st, "SemanticError"), 0, <<>>, {})
             ELSE Bind(DeleteWhere(sn.st, table, preds), LAMBDA d :
                      Outcome(d.st, d.count, <<>>, d.ids)))

\* SELECT from one table: snapshot, semantic check, the pipeline over SeqScan
RunSelect(st, stmt) ==
    Bind(SnapshotRuntimeCatalog(st), LAMBDA sn :
        IF Failed(sn.st) THEN Outcome(sn.st, 0, <<>>, {})
        ELSE IF CheckSelect(sn.cat, stmt) # NoErr
             THEN Outcome(Raise(sn.st, "SemanticError"), 0, <<>>, {})
             ELSE Bind(SeqScan(sn.st, stmt.table), LAMBDA sc :
                      IF Failed(sc.st) THEN Outcome(sc.st, 0, <<>>, {})
                      ELSE Bind(ExecutePlan(PlanSelect(stmt),
                                            [t \in {stmt.table} |-> Rows(sc.rows)]),
                                LAMBDA res : Outcome(Raise(sc.st, res.err), 0, res.rows, {}))))

\* the statements of an input; arg is the column list of a CREATE TABLE, the
\* value rows of an INSERT, the comparisons of a DELETE
Statement(kind, table, arg) == [kind |-> kind, table |-> table, arg |-> arg]

\* compile_and_execute; text the parser rejects ends in ParseError
CompileAndExecute(st, stmt) ==
    CASE stmt.kind = "create" ->
            Outcome(RunCreateTable(st, stmt.table, stmt.arg), 0, <<>>, {})
      [] stmt.kind = "insert" ->
            Bind(RunInsert(st, stmt.table, stmt.arg), LAMBDA ins :
                Outcome(ins.st, ins.count, <<>>, {}))
      [] stmt.kind = "delete" -> RunDelete(st, stmt.table, stmt.arg)
      [] stmt.kind = "select" ->
            RunSelect(st, Select(Star, stmt.table, <<>>, NoCondition, <<>>))
      [] OTHER -> Outcome(Raise(st, "ParseError"), 0, <<>>, {})

\* http_execute: each statement in turn, an exception becoming the result of
\* its statement: [st, results]
RECURSIVE HttpExecuteFrom(_, _, _, _)
HttpExecuteFrom(st, stmts, i, results) ==
    IF i > Len(stmts) THEN [st |-> st, results |-> results]
    ELSE Bind(CompileAndExecute(st, stmts[i]), LAMBDA o :
             HttpExecuteFrom([o.st EXCEPT !.err = NoErr], stmts, i + 1,
                 Append(results, [err |-> o.st.err, count |-> o.count, rows |-> o.rows,
                                  ids |-> o.ids])))

HttpExecute(st, stmts) == HttpExecuteFrom(st, stmts, 1, <<>>)

\* the statements an input is made of: CREATE TABLE t (id INT, v TEXT);
\* INSERT INTO t VALUES (<id>, <text>); DELETE FROM t [WHERE id = k];
\* SELECT * FROM t; SELEC * FROM t
StatementShapes ==
    {Statement("create", "t", <<ColDef("id", "INT"), ColDef("v", "TEXT")>>),
     Statement("select", "t", <<>>), Statement("bad", "", <<>>)}
    \cup {Statement("insert", "t", <<x>>) : x \in TextValues}
    \cup {Statement("delete", "t", q) : q \in Predicates}

\* the INSERT at position i of an input inserts the id i
WithId(stmt, i) ==
    IF stmt.kind = "insert" THEN [stmt EXCEPT !.arg = << <<IntV(i), stmt.arg[1]>> >>] ELSE stmt

Inputs ==
    UNION {{[i \in 1..n |-> WithId(f[i], i)] : f \in [1..n -> StatementShapes]} :
              n \in 1..MaxStatements}

\* -------------------------------------------------------------------- Init
EmptyDisk == [t \in Tables |-> <<>>]

\* the module-level construction of server.py over an empty data directory
Constructed ==
    [cap \in Capacities |->
        InitCatalogTable([capacity |-> cap, cache |-> <<>>, disk |-> EmptyDisk,
                          alias |-> NoAlias, shadow |-> EmptyDisk, stats |-> NoStats,
                          usage |-> NoUsage, err |-> NoErr])]

Started ==
    /\ capacity \in Capacities
    /\ cache = Constructed[capacity].cache
    /\ disk = Constructed[capacity].disk
    /\ alias = Constructed[capacity].alias
    /\ shadow = Constructed[capacity].shadow
    /\ stats = Constructed[capacity].stats
    /\ usage = Constructed[capacity].usage
    /\ nextId = 1
    /\ steps = 0
    /\ abs = [t \in UserTables |-> <<>>]
    /\ tomb = {}
    /\ appendOnly = TRUE
    /\ obs = NoObs
    /\ lastOp = [op |-> "init", table |-> "", err |-> NoErr, count |-> 0, preds |-> <<>>, set |-> <<>>,
                 rows |-> <<>>, evicted |-> 0]

Init == Started /\ query = NoQuery

\* the server started over a data directory whose tables s and c hold some rows
InitQuery ==
    /\ Started
    /\ capacity = 1
    /\ query \in {[NoQuery EXCEPT !.tables = [s |-> sr, c |-> cr]] :
                    sr \in SeqsUpTo(SRows, MaxQueryRows), cr \in SeqsUpTo(CRows, MaxQueryRows)}

\* ---------------------------------------------------- BufferManager counters
\* _load_stats: a new pool starts from the counters of the stats file
LoadStats(old) ==
    IF old.file.exists
    THEN [old EXCEPT !.hit_count = old.file.hit_count, !.miss_count = old.file.miss_count,
                     !.evict_count = old.file.evict_count]
    ELSE NoStats

\* get_stats: answers the counters and saves them to the stats file
GetStats(st) ==
    [st EXCEPT !.stats.file = [exists |-> TRUE, hit_count |-> st.stats.hit_count,
                               miss_count |-> st.stats.miss_count,
                               evict_count |-> st.stats.evict_count]]

\* reset_stats: counters and stats file back to zero; counting starts here
ResetStats(st) ==
    [st EXCEPT !.stats = [hit_count |-> 0, miss_count |-> 0, evict_count |-> 0,
                          file |-> [exists |-> TRUE, hit_count |-> 0, miss_count |-> 0,
                                    evict_count |-> 0]],
               !.usage.calls = 0, !.usage.removed = 0, !.usage.counted = TRUE]

\* ------------------------------------------------- BufferManager operations
DoGetStats ==
    \E st \in {GetStats(Cur)} :
       /\ Commit(st)
       /\ lastOp' = Op("get_stats", "", st, 0, <<>>)
       /\ obs' = NoObs
       /\ UNCHANGED <<nextId, abs, tomb, appendOnly>>

DoResetStats ==
    \E st \in {ResetStats(Cur)} :
       /\ Commit(st)
       /\ lastOp' = Op("reset_stats", "", st, 0, <<>>)
       /\ obs' = NoObs
       /\ UNCHANGED <<nextId, abs, tomb, appendOnly>>

DoGetPage(table, pid) ==
    \E st \in {GetPage(Cur, table, pid)} :
       /\ Commit(st)
       /\ lastOp' = Op("get_page", "", st, 0, <<>>)
       /\ obs' = NoObs
       /\ UNCHANGED <<nextId, abs, tomb, appendOnly>>

DoNewPage(table) ==
    /\ Len(disk[table]) < MaxPages
    /\ \E st \in {NewPage(Cur, table)} :
          /\ Commit(st)
          /\ lastOp' = Op("new_page", "", st, 0, <<>>)
    /\ obs' = NoObs
    /\ UNCHANGED <<nextId, abs, tomb, appendOnly>>

DoMarkDirty(table, pid) ==
    \E st \in {MarkDirty(Cur, table, pid)} :
       /\ Commit(st)
       /\ lastOp' = Op("mark_dirty", "", st, 0, <<>>)
       /\ obs' = NoObs
       /\ UNCHANGED <<nextId, abs, tomb, appendOnly>>

DoFlushPage(table, pid) ==
    \E st \in {FlushPage(Cur, table, pid)} :
       /\ Commit(st)
       /\ lastOp' = Op("flush_page", table, st, pid, <<>>)
       /\ obs' = NoObs
       /\ UNCHANGED <<nextId, abs, tomb, appendOnly>>

DoFlushAll ==
    \E st \in {FlushAll(Cur)} :
       /\ Commit(st)
       /\ lastOp' = Op("flush_all", "", st, 0, <<>>)
       /\ obs' = NoObs
       /\ UNCHANGED <<nextId, abs, tomb, appendOnly>>

\* -------------------------------------------------- TableStorage operations
DoAppendRow(table, text) ==
    /\ nextId <= MaxRows
    /\ \E st \in {AppendRow(Cur, table, UserRow(nextId, text))} :
          /\ Len(st.disk[table]) <= MaxPages
          /\ Commit(st)
          /\ lastOp' = Op("append_row", table, st, 0, <<>>)
          /\ abs' = IF Failed(st) THEN abs
                    ELSE [abs EXCEPT ![table] = Append(@, UserRow(nextId, text))]
          /\ nextId' = IF Failed(st) THEN nextId ELSE nextId + 1
    /\ obs' = NoObs
    /\ UNCHANGED <<tomb, appendOnly>>

DoSeqScan(table) ==
    \E sc \in {SeqScan(Cur, table)} :
       /\ Commit(sc.st)
       /\ lastOp' = Op("seq_scan", table, sc.st, Len(sc.rows), sc.rows)
       /\ obs' = IF Failed(sc.st) THEN NoObs
                 ELSE [phase |-> "scanned", table |-> table, rows |-> sc.rows, n |-> 0]
       /\ UNCHANGED <<nextId, abs, tomb, appendOnly>>

DoDeleteWhere(table, preds) ==
    \E d \in {DeleteWhere(Cur, table, preds)} :
       /\ Commit(d.st)
       /\ lastOp' = [Op("delete_where", table, d.st, d.count, <<>>) EXCEPT !.preds = preds]
       /\ abs' = IF Failed(d.st) THEN abs
                 ELSE [abs EXCEPT ![table] = MarkDeletedRows(@, preds)]
       /\ tomb' = IF Failed(d.st) THEN tomb ELSE tomb \cup d.ids
       /\ appendOnly' = FALSE
       /\ obs' = NoObs
       /\ UNCHANGED <<nextId>>

DoUpdateWhere(table, setClause, preds) ==
    \E u \in {UpdateWhere(Cur, table, setClause, preds)} :
       /\ Commit(u.st)
       /\ lastOp' = [Op("update_where", table, u.st, u.count, <<>>)
                       EXCEPT !.preds = preds, !.set = setClause]
       /\ abs' = IF Failed(u.st) THEN abs
                 ELSE [abs EXCEPT ![table] = UpdateRows(@, setClause, preds)]
       /\ appendOnly' = FALSE
       /\ obs' = NoObs
       /\ UNCHANGED <<nextId, tomb>>

\* ---------------------------------------------------------------- statements
DoCreateTable(table, columns) ==
    \E st \in {RunCreateTable(Cur, table, columns)} :
       /\ Commit(st)
       /\ lastOp' = Op("CreateTable", table, st, 0, <<>>)
       /\ obs' = NoObs
       /\ UNCHANGED <<nextId, abs, tomb, appendOnly>>

DoDropTable(table) ==
    \E st \in {DropTable(Cur, table)} :
       /\ Commit(st)
       /\ lastOp' = Op("drop_table", table, st, 0, <<>>)
       /\ obs' = NoObs
       /\ UNCHANGED <<nextId, abs, tomb, appendOnly>>

DoInsert(table, texts) ==
    /\ nextId + Len(texts) - 1 <= MaxRows
    /\ \E ins \in {RunInsert(Cur, table, InsertValues(texts))} :
          /\ Len(ins.st.disk[table]) <= MaxPages
          /\ Commit(ins.st)
          /\ lastOp' = Op("Insert", table, ins.st, ins.count, <<>>)
          /\ abs' = [abs EXCEPT ![table] = @ \o ins.rows]
          /\ nextId' = nextId + ins.count
          /\ obs' = IF ~Failed(ins.st) /\ obs.phase = "scanned" /\ obs.table = table
                    THEN [obs EXCEPT !.phase = "inserted", !.n = Len(texts)]
                    ELSE NoObs
    /\ UNCHANGED <<tomb, appendOnly>>

\* ------------------------------------------------------------------ restart
\* server.cleanup at exit (flush_all, exception swallowed), then the module
\* level construction of a new process over the same data directory; lastOp
\* keeps what GET /schema answered just before the restart
OnDisk(files) ==
    [t \in Tables |-> [p \in 1..Len(files[t]) |-> Deserialize(files[t][p])]]

Reopen ==
    \E before \in {Schema(Cur)} :
    \E f \in {FlushAll(Cur)} :
    \E st \in {InitCatalogTable([capacity |-> capacity, cache |-> <<>>, disk |-> f.disk,
                                 alias |-> NoAlias, shadow |-> OnDisk(f.disk),
                                 stats |-> LoadStats(f.stats),
                                 usage |-> [NoUsage EXCEPT !.counted = ~f.stats.file.exists,
                                                           !.dropped = f.usage.dropped],
                                 err |-> NoErr])} :
       /\ Commit(st)
       /\ lastOp' = [op |-> "reopen", table |-> "", err |-> st.err, count |-> 0,
                     preds |-> <<>>, set |-> <<>>, rows |-> <<>>, evicted |-> 0,
                     schema |-> before]
       /\ abs' = [t \in UserTables |-> Concat(OnDisk(f.disk)[t])]
       /\ obs' = NoObs
       /\ UNCHANGED <<nextId, tomb, appendOnly>>

\* ------------------------------------------------------------------- SELECT
DoSelect(stmt) ==
    \E res \in {SelectStatement(QueryCatalog,
                                [t \in DOMAIN query.tables |-> Rows(query.tables[t])],
                                stmt)} :
       /\ query' = [query EXCEPT !.ran = TRUE, !.stmt = stmt, !.err = res.err,
                                 !.rows = res.rows]
       /\ steps' = steps + 1
       /\ UNCHANGED <<capacity, cache, disk, alias, nextId, shadow, abs, tomb, appendOnly,
                      obs, lastOp, stats, usage>>

\* ------------------------------------------------------------- POST /execute
\* lastOp keeps the input and the result of each of its statements; the
\* histories abs, tomb and nextId follow single operations and are left alone
DoHttpExecute(stmts) ==
    \E h \in {HttpExecute(Cur, stmts)} :
       /\ Len(h.st.disk["t"]) <= MaxPages
       /\ Commit(h.st)
       /\ lastOp' = [op |-> "execute", table |-> "", err |-> NoErr, count |-> 0,
                     preds |-> <<>>, set |-> <<>>, rows |-> <<>>, evicted |-> 0,
                     stmts |-> stmts, results |-> h.results]
       /\ obs' = NoObs
       /\ UNCHANGED <<nextId, abs, tomb, appendOnly>>

\* every specification stops after a given number of operations
Within(bound) == steps < bound

Next ==
    \/ \E t \in Tables, p \in PageIds : Within(MaxSteps) /\ DoGetPage(t, p)
    \/ \E t \in UserTables : Within(MaxSteps) /\ DoNewPage(t)
    \/ \E t \in Tables, p \in PageIds : Within(MaxSteps) /\ DoMarkDirty(t, p)
    \/ \E t \in Tables, p \in PageIds : Within(MaxSteps) /\ DoFlushPage(t, p)
    \/ Within(MaxSteps) /\ DoFlushAll
    \/ \E t \in UserTables, x \in TextValues : Within(MaxSteps) /\ DoAppendRow(t, x)
    \/ \E t \in UserTables : Within(MaxSteps) /\ DoSeqScan(t)
    \/ \E t \in UserTables, q \in Predicates : Within(MaxSteps) /\ DoDeleteWhere(t, q)
    \/ \E t \in UserTables, c \in SetClauses, q \in Predicates :
           Within(MaxSteps) /\ DoUpdateWhere(t, c, q)
    \/ \E t \in CreateNames, cols \in ColumnLists : Within(MaxSteps) /\ DoCreateTable(t, cols)
    \/ \E t \in UserTables, texts \in ValueLists : Within(MaxSteps) /\ DoInsert(t, texts)
    \/ Within(MaxSteps) /\ Reopen

Spec == Init /\ [][Next]_vars

\* TableStorage used through one BufferManager
NextStorage ==
    \/ \E t \in UserTables, x \in TextValues : Within(MaxStorageSteps) /\ DoAppendRow(t, x)
    \/ \E t \in UserTables : Within(MaxStorageSteps) /\ DoSeqScan(t)
    \/ \E t \in UserTables, q \in Predicates : Within(MaxStorageSteps) /\ DoDeleteWhere(t, q)
    \/ \E t \in UserTables, c \in SetClauses, q \in Predicates :
           Within(MaxStorageSteps) /\ DoUpdateWhere(t, c, q)
    \/ Within(MaxStorageSteps) /\ DoFlushAll

SpecStorage == Init /\ [][NextStorage]_vars

\* SQL statements sent to the server
NextStmt ==
    \/ \E t \in CreateNames, cols \in ColumnLists :
           Within(MaxStmtSteps) /\ DoCreateTable(t, cols)
    \/ \E t \in UserTables, texts \in ValueLists : Within(MaxStmtSteps) /\ DoInsert(t, texts)
    \/ \E t \in UserTables, q \in Predicates : Within(MaxStmtSteps) /\ DoDeleteWhere(t, q)
    \/ \E t \in UserTables : Within(MaxStmtSteps) /\ DoSeqScan(t)

SpecStmt == Init /\ [][NextStmt]_vars

\* append_row called with rows of any length
NextAppend ==
    \/ \E t \in UserTables, x \in AppendValues : Within(MaxAppendSteps) /\ DoAppendRow(t, x)
    \/ \E t \in UserTables : Within(MaxAppendSteps) /\ DoSeqScan(t)
    \/ Within(MaxAppendSteps) /\ DoFlushAll

SpecAppend == Init /\ [][NextAppend]_vars

\* one buffer pool under page requests, table writes, its statistics
\* operations and restarts
NextPool ==
    \/ \E t \in Tables, p \in PageIds : Within(MaxPoolSteps) /\ DoGetPage(t, p)
    \/ \E t \in UserTables : Within(MaxPoolSteps) /\ DoNewPage(t)
    \/ \E t \in UserTables, x \in TextValues : Within(MaxPoolSteps) /\ DoAppendRow(t, x)
    \/ \E t \in UserTables, q \in Predicates : Within(MaxPoolSteps) /\ DoDeleteWhere(t, q)
    \/ Within(MaxPoolSteps) /\ DoGetStats
    \/ Within(MaxPoolSteps) /\ DoResetStats
    \/ Within(MaxPoolSteps) /\ Reopen

SpecPool == Init /\ [][NextPool]_vars

\* the catalog under create_table and drop_table, with page traffic,
\* flushes and restarts in between
NextCatalog ==
    \/ \E t \in CreateNames, cols \in ColumnLists :
           Within(MaxCatalogSteps) /\ DoCreateTable(t, cols)
    \/ \E t \in CreateNames : Within(MaxCatalogSteps) /\ DoDropTable(t)
    \/ \E t \in UserTables : Within(MaxCatalogSteps) /\ DoNewPage(t)
    \/ \E t \in Tables, p \in PageIds : Within(MaxCatalogSteps) /\ DoGetPage(t, p)
    \/ Within(MaxCatalogSteps) /\ DoFlushAll
    \/ Within(MaxCatalogSteps) /\ Reopen

SpecCatalog == Init /\ [][NextCatalog]_vars

\* statements sent to a server that is stopped and started again
NextRestart ==
    \/ \E t \in CreateNames, cols \in ColumnLists :
           Within(MaxRestartSteps) /\ DoCreateTable(t, cols)
    \/ \E t \in UserTables, texts \in ValueLists : Within(MaxRestartSteps) /\ DoInsert(t, texts)
    \/ \E t \in UserTables, q \in Predicates : Within(MaxRestartSteps) /\ DoDeleteWhere(t, q)
    \/ Within(MaxRestartSteps) /\ Reopen

SpecRestart == Init /\ [][NextRestart]_vars

\* SELECT statements over tables that hold some rows
NextQuery == \E stmt \in Selects : Within(MaxQuerySteps) /\ DoSelect(stmt)

SpecQuery == InitQuery /\ [][NextQuery]_vars

\* multi-statement inputs posted to the server
NextExecute == \E stmts \in Inputs : Within(MaxExecuteSteps) /\ DoHttpExecute(stmts)

SpecExecute == Init /\ [][NextExecute]_vars

\* ------------------------------------------------------------- properties
Resident(table, pid) == FrameIndex(cache, table, pid) > 0

\* C1: after every operation the number of resident frames is at most the
\* configured capacity.
CapacityBound == Len(cache) <= capacity

\* a full pool right after an operation that evicted
CapacityBoundWitness ==
    /\ lastOp.op \in {"get_page", "new_page"}
    /\ lastOp.evicted > 0
    /\ Len(cache) = capacity

\* C2: a dirty frame that leaves the cache has its page in the table file,
\* also when the write of the evicted frame fails.
EvictionWritesBack ==
    [][lastOp'.op # "reopen" =>
        \A i \in 1..Len(cache) :
            (cache[i].dirty /\ FrameIndex(cache', cache[i].table, cache[i].pid) = 0)
            => Deserialize(disk'[cache[i].table][cache[i].pid + 1]) = cache[i].rows]_vars

\* C3: after flush_all every page read from the file (as a fresh buffer pool
\* does) has the content last written to it in memory.
FlushDurable ==
    (lastOp.op = "flush_all" /\ lastOp.err = NoErr) =>
        \A t \in Tables : \A p \in 1..Len(disk[t]) :
            Deserialize(disk[t][p]) = shadow[t][p]

\* C4: a row tombstoned by delete_where is never yielded by a later seq_scan.
TombstoneOpacity ==
    lastOp.op = "seq_scan" =>
        \A j \in 1..Len(lastOp.rows) : RowId(lastOp.rows[j]) \notin tomb

InnerJoinPairs ==
    (query.ran /\ query.stmt = JoinSelect) =>
        LET sr == query.tables["s"]
            cr == query.tables["c"]
            P == {p \in (1..Len(sr)) \X (1..Len(cr)) :
                    sr[p[1]]["cid"] # NullV /\ sr[p[1]]["cid"] = cr[p[2]]["id"]}
            Before(q, p) == q[1] < p[1] \/ (q[1] = p[1] /\ q[2] < p[2])
            Nth(n) == CHOOSE p \in P : Cardinality({q \in P : Before(q, p)}) = n - 1
        IN /\ query.err = NoErr
           /\ Len(query.rows) = Cardinality(P)
           /\ \A n \in 1..Cardinality(P) :
                 IF n <= Len(query.rows)
                 THEN /\ RowGet(query.rows[n], "s.id") = sr[Nth(n)[1]]["id"]
                      /\ RowGet(query.rows[n], "c.name") = cr[Nth(n)[2]]["name"]
                 ELSE FALSE

\* C13: SELECT * FROM s LEFT JOIN c ON s.cid = c.id returns every s row at
\* least once, and an s row without a matching c row exactly once, with the
\* columns of c present and null, also when c has no rows.
LeftJoinNullFill ==
    (query.ran /\ query.stmt = LeftJoinSelect) =>
        LET sr == query.tables["s"]
            cr == query.tables["c"]
            Hits(i) == {k \in 1..Len(cr) : sr[i]["cid"] # NullV /\ sr[i]["cid"] = cr[k]["id"]}
            Out(i) == IF Hits(i) = {} THEN 1 ELSE Cardinality(Hits(i))
            Pos(i) == 1 + Cardinality({p \in (1..Len(sr)) \X (1..MaxQueryRows + 1) :
                                          p[1] < i /\ p[2] <= Out(p[1])})
        IN /\ query.err = NoErr
           /\ Len(query.rows) = Pos(Len(sr) + 1) - 1
           /\ \A i \in 1..Len(sr) :
                 (Hits(i) = {} /\ Pos(i) <= Len(query.rows)) =>
                    /\ RowGet(query.rows[Pos(i)], "cid") = sr[i]["cid"]
                    /\ "name" \in DOMAIN query.rows[Pos(i)]
                    /\ query.rows[Pos(i)]["name"] = NullV

\* C14: SELECT cid, SUM(id) FROM s GROUP BY cid returns one row per distinct
\* value of cid, and each row holds the group column cid and the column
\* SUM(id) with the sum of id over the rows of the group.
GroupBySum ==
    (query.ran /\ query.stmt = GroupSelect) =>
        LET sr == query.tables["s"]
            Groups == {sr[i]["cid"] : i \in 1..Len(sr)}
            Total(g) == Cardinality({p \in (1..Len(sr)) \X (1..10) :
                                        sr[p[1]]["cid"] = g /\ p[2] <= sr[p[1]]["id"].i})
        IN /\ query.err = NoErr
           /\ Len(query.rows) = Cardinality(Groups)
           /\ \A g \in Groups : \E n \in 1..Len(query.rows) :
                 /\ RowGet(query.rows[n], "cid") = g
                 /\ "SUM(id)" \in DOMAIN query.rows[n]
                 /\ query.rows[n]["SUM(id)"] = IntV(Total(g))

\* C19: for SELECT cid, name FROM s JOIN c ON ... WHERE ... the planned tree
\* returns the rows of the join on its ON condition that satisfy every WHERE
\* comparison, in join order.
PushdownPreserves ==
    (query.ran /\ query.stmt \in WhereJoinSelects) =>
        LET sr == query.tables["s"]
            cr == query.tables["c"]
            on == query.stmt.joins[1].on
            W == FlattenCondition(query.stmt.where)
            Val(ref, l, r) ==
                IF TablePart(ref) = "s" THEN l[ExtractColumnName(ref)]
                ELSE IF TablePart(ref) = "c" THEN r[ExtractColumnName(ref)]
                ELSE IF ref \in DOMAIN l THEN l[ref] ELSE r[ref]
            P == {p \in (1..Len(sr)) \X (1..Len(cr)) :
                    /\ Val(on.left, sr[p[1]], cr[p[2]]) # NullV
                    /\ Val(on.left, sr[p[1]], cr[p[2]]) = Val(on.right.s, sr[p[1]], cr[p[2]])
                    /\ \A k \in 1..Len(W) : Val(W[k].left, sr[p[1]], cr[p[2]]) = W[k].right}
            Before(q, p) == q[1] < p[1] \/ (q[1] = p[1] /\ q[2] < p[2])
            Nth(n) == CHOOSE p \in P : Cardinality({q \in P : Before(q, p)}) = n - 1
        IN /\ query.err = NoErr
           /\ Len(query.rows) = Cardinality(P)
           /\ \A n \in 1..Cardinality(P) :
                 IF n <= Len(query.rows)
                 THEN /\ RowGet(query.rows[n], "cid") = sr[Nth(n)[1]]["cid"]
                      /\ RowGet(query.rows[n], "name") = cr[Nth(n)[2]]["name"]
                 ELSE FALSE

\* C20: a WHERE comparison never raises, and it is false for a row in which
\* either operand is null or the operands are an integer and a string, for
\* each of the six operators.
PredicateTotal ==
    (query.ran /\ query.stmt \in FilterSelects) =>
        LET p == query.stmt.where
            rows == query.tables[query.stmt.table]
            Undefined(row) ==
                LET val == RowGet(row, p.left)
                    rv == RightValue(row, p.right)
                IN \/ val = NullV
                   \/ rv = NullV
                   \/ {val.k, rv.k} = {"int", "str"}
        IN /\ query.err = NoErr
           /\ \A i \in 1..Len(rows) :
                 Undefined(rows[i]) =>
                    /\ PredicateOutcome(rows[i], p.left, p.op, p.right) = "False"
                    /\ \A n \in 1..Len(query.rows) : query.rows[n] # rows[i]

\* C21: an aggregate query without GROUP BY returns exactly one row, also
\* over a table without rows, where COUNT(*) and COUNT(col) are 0, SUM is 0
\* and MIN and MAX are null.
AggregateOneRow ==
    (query.ran /\ query.stmt = AggregateSelect) =>
        /\ query.err = NoErr
        /\ Len(query.rows) = 1
        /\ query.tables.s = <<>> =>
              /\ DOMAIN query.rows[1] =
                    {"COUNT(*)", "COUNT(cid)", "SUM(cid)", "MIN(cid)", "MAX(cid)"}
              /\ \A key \in {"COUNT(*)", "COUNT(cid)", "SUM(cid)"} :
                    query.rows[1][key] = IntV(0)
              /\ \A key \in {"MIN(cid)", "MAX(cid)"} : query.rows[1][key] = NullV

\* C22: ORDER BY returns its input rows sorted by the key list, each key in
\* its own direction, integers and strings alike, nulls first, rows with
\* equal keys in input order, and does not raise.
OrderBySorted ==
    (query.ran /\ query.stmt \in OrderSelects) =>
        LET input == query.tables[query.stmt.table]
            specs == query.stmt.order_by
            before(a, b, direction) ==
                IF a = NullV THEN b # NullV
                ELSE IF b = NullV THEN FALSE
                ELSE IF direction = "DESC" THEN PyLess(b, a) ELSE PyLess(a, b)
            first(x, y) ==
                \E j \in 1..Len(specs) :
                    /\ before(x[specs[j].column], y[specs[j].column], specs[j].direction)
                    /\ \A h \in 1..(j - 1) : x[specs[h].column] = y[specs[h].column]
            rank(i) == Cardinality({j \in 1..Len(input) :
                           \/ first(input[j], input[i])
                           \/ (~first(input[i], input[j]) /\ j < i)})
        IN /\ query.err = NoErr
           /\ Len(query.rows) = Len(input)
           /\ \A i \in 1..Len(input) : query.rows[rank(i) + 1] = input[i]

\* C23: in one input, the statement after a successful CREATE TABLE is
\* checked against a catalog that holds the new table: an INSERT into it or
\* a SELECT from it passes the check and runs, a second CREATE TABLE of it
\* is rejected by the check.
SnapshotRefreshed ==
    lastOp.op = "execute" =>
        \A i \in 1..(Len(lastOp.stmts) - 1) :
            (/\ lastOp.stmts[i].kind = "create"
             /\ lastOp.results[i].err = NoErr
             /\ lastOp.stmts[i + 1].table = lastOp.stmts[i].table) =>
                /\ lastOp.stmts[i + 1].kind \in {"insert", "select"} =>
                      lastOp.results[i + 1].err = NoErr
                /\ lastOp.stmts[i + 1].kind = "create" =>
                      lastOp.results[i + 1].err = "SemanticError"

\* an input with CREATE TABLE, INSERT, SELECT in a row, and a second CREATE
\* TABLE later
SnapshotRefreshedWitness ==
    /\ lastOp.op = "execute"
    /\ Len(lastOp.stmts) = 4
    /\ [i \in 1..4 |-> lastOp.stmts[i].kind] = <<"create", "create", "insert", "select">>
    /\ [i \in 1..4 |-> lastOp.results[i].err] = <<NoErr, "SemanticError", NoErr, NoErr>>
    /\ Len(lastOp.results[4].rows) = 1

\* C24: the frame evicted is always the least recently used one: the
\* resident keys are kept in the order of their last get_page or new_page,
\* every victim was first in that order, and the key accessed last is
\* resident whenever the capacity is at least 1.
LruVictim ==
    /\ usage.inorder
    /\ [i \in 1..Len(cache) |-> <<cache[i].table, cache[i].pid>>] = ByLastUse(Cur)
    /\ (capacity >= 1 /\ usage.lru # <<>>) =>
           /\ cache # <<>>
           /\ usage.lru[Len(usage.lru)] = <<cache[Len(cache)].table, cache[Len(cache)].pid>>

\* a frame was evicted from a pool of two frames after a hit had reordered it
LruVictimWitness ==
    /\ capacity = 2
    /\ usage.removed > 0
    /\ stats.hit_count > 0
    /\ Len(cache) = 2

\* C25: on one pool instance, since its construction without a stats file or
\* since its last reset, hit_count + miss_count is the number of get_page
\* calls and evict_count is the number of frames removed from the cache.
StatsExact ==
    usage.counted =>
       /\ stats.hit_count + stats.miss_count = usage.calls
       /\ stats.evict_count = usage.removed

\* C26: flush_all leaves no resident frame dirty and every frame that was
\* dirty stored in its table file; flush_page does the same for one key and
\* nothing for a clean or absent key; both leave the resident keys, their
\* order, the frames' rows and the three counters unchanged.  (lastOp of a
\* flush_page holds the key: table and, in count, the page id.)
FlushClean ==
    [][
       /\ (lastOp'.op \in {"flush_all", "flush_page"}) =>
              /\ Len(cache') = Len(cache)
              /\ \A i \in 1..Len(cache) :
                     /\ cache'[i].table = cache[i].table
                     /\ cache'[i].pid = cache[i].pid
                     /\ cache'[i].rows = cache[i].rows
              /\ stats' = stats
       /\ (lastOp'.op = "flush_all") =>
              \A i \in 1..Len(cache) :
                 /\ ~cache'[i].dirty
                 /\ (cache[i].dirty =>
                        Deserialize(disk'[cache[i].table][cache[i].pid + 1]) = cache[i].rows)
       /\ (lastOp'.op = "flush_page") =>
              LET i == FrameIndex(cache, lastOp'.table, lastOp'.count)
              IN IF i > 0 /\ cache[i].dirty
                 THEN /\ cache' = [cache EXCEPT ![i].dirty = FALSE]
                      /\ Deserialize(disk'[cache[i].table][cache[i].pid + 1]) = cache[i].rows
                 ELSE cache' = cache /\ disk' = disk
    ]_vars

\* C27: UPDATE applies its set clause to every live row that passes the
\* conjunction and DELETE tombstones exactly those rows, both returning their
\* number; every other row keeps its values and its live or deleted state,
\* and every page keeps its rows.  When the statement raises, the rows that
\* pass may be changed or not; the rest of the claim is required all the same.
UpdateDeleteExact ==
    [][(lastOp'.op \in {"update_where", "delete_where"}) =>
        /\ \A t \in UserTables : \A p \in 0..(Len(disk[t]) - 1) :
              /\ Len(disk'[t]) = Len(disk[t])
              /\ Len(View(t, p)') = Len(View(t, p))
              /\ \A i \in 1..Len(View(t, p)) :
                    LET old == View(t, p)[i]
                        new == IF lastOp'.op = "delete_where"
                               THEN SetKey(old, DELETED, TrueV)
                               ELSE UpdateFunc(old, lastOp'.set)
                        passes == /\ t = lastOp'.table
                                  /\ ~IsDeleted(old)
                                  /\ AndPred(old, lastOp'.preds)
                    IN IF ~passes THEN View(t, p)'[i] = old
                       ELSE IF lastOp'.err = NoErr THEN View(t, p)'[i] = new
                       ELSE View(t, p)'[i] \in {old, new}
        /\ (lastOp'.err = NoErr) =>
              lastOp'.count = MatchCount(TableView(lastOp'.table), lastOp'.preds)]_vars

\* the part of C27 about statements that return: it holds
UpdateDeleteExactOnReturn ==
    [][(lastOp'.op \in {"update_where", "delete_where"} /\ lastOp'.err = NoErr) =>
        /\ \A t \in UserTables : \A p \in 0..(Len(disk[t]) - 1) :
              /\ Len(disk'[t]) = Len(disk[t])
              /\ Len(View(t, p)') = Len(View(t, p))
              /\ \A i \in 1..Len(View(t, p)) :
                    LET old == View(t, p)[i]
                        new == IF lastOp'.op = "delete_where"
                               THEN SetKey(old, DELETED, TrueV)
                               ELSE UpdateFunc(old, lastOp'.set)
                        passes == /\ t = lastOp'.table
                                  /\ ~IsDeleted(old)
                                  /\ AndPred(old, lastOp'.preds)
                    IN View(t, p)'[i] = IF passes THEN new ELSE old
        /\ lastOp'.count = MatchCount(TableView(lastOp'.table), lastOp'.preds)]_vars

\* C29: every row of pg_catalog, in the pool or in the file, has exactly the
\* keys table_name, column_name, column_type and column_order, and possibly
\* the tombstone key, after any constructions and create_table calls.
CatalogRowKeys ==
    \A p \in 0..(Len(disk[CATALOG]) - 1) :
       /\ \A i \in 1..Len(View(CATALOG, p)) :
              DOMAIN View(CATALOG, p)[i] \ {DELETED}
                 = {"table_name", "column_name", "column_type", "column_order"}
       /\ \A i \in 1..Len(Deserialize(disk[CATALOG][p + 1])) :
              DOMAIN Deserialize(disk[CATALOG][p + 1])[i] \ {DELETED}
                 = {"table_name", "column_name", "column_type", "column_order"}

CatalogHas(table) ==
    \E i \in 1..Len(TableView(CATALOG)) :
        /\ ~IsDeleted(TableView(CATALOG)[i])
        /\ RowGet(TableView(CATALOG)[i], "table_name") = StrV(table, 0)

\* C28: the rows of every resident clean frame are the rows of its page in
\* the table file: every change made in memory (append, tombstone, update,
\* catalog registration, catalog drop_table) marks the frame dirty.
CleanFramesMatchDisk ==
    \A i \in 1..Len(cache) :
        ~cache[i].dirty =>
            cache[i].rows = Deserialize(disk[cache[i].table][cache[i].pid + 1])

\* C30: a table whose drop_table returned is absent from the catalog, for
\* has_table and for list_tables, until it is created again; evictions,
\* flush_all and restarts do not bring it back.
DropPersists == \A t \in usage.dropped : ~CatalogHas(t)

SchemaSurvivesRestart ==
    (lastOp.op = "reopen" /\ lastOp.schema.err = NoErr) =>
        /\ Schema(Cur) = lastOp.schema
        /\ Len(SelectSeq(IterLiveRows(TableView(CATALOG)),
                         LAMBDA r : RowTable(r) = StrV(CATALOG, 0))) = Len(CatalogColumns)

\* C17: every statement of an input gets its result, whatever failed before
\* it, and what the statements that succeeded did is still there after the
\* input: the table a CREATE TABLE registered, the row an INSERT stored, the
\* tombstones of the rows a DELETE counted.
StatementIsolation ==
    lastOp.op = "execute" =>
        /\ Len(lastOp.results) = Len(lastOp.stmts)
        /\ \A i \in 1..Len(lastOp.stmts) :
              lastOp.results[i].err = NoErr =>
                 /\ lastOp.stmts[i].kind = "create" =>
                       \E j \in 1..Len(TableView(CATALOG)) :
                          RowTable(TableView(CATALOG)[j]) = StrV(lastOp.stmts[i].table, 0)
                 /\ lastOp.stmts[i].kind = "insert" =>
                       \E j \in 1..Len(TableView("t")) : RowId(TableView("t")[j]) = i
                 /\ lastOp.stmts[i].kind = "delete" =>
                       \A j \in 1..Len(TableView("t")) :
                          RowId(TableView("t")[j]) \in lastOp.results[i].ids
                             => IsDeleted(TableView("t")[j])

\* C18: when append_row fails because the row does not fit even in an empty
\* page, the table's page count, every page's rows and the set of dirty
\* frames are the same as before the call.
AppendFailureLeavesStorage ==
    [][(lastOp'.op = "append_row" /\ lastOp'.err = "AssertionError") =>
          /\ \A t \in Tables : Len(disk'[t]) = Len(disk[t])
          /\ \A t \in Tables : TableView(t)' = TableView(t)
          /\ {<<cache'[i].table, cache'[i].pid>> : i \in {j \in 1..Len(cache') : cache'[j].dirty}}
                = {<<cache[i].table, cache[i].pid>> : i \in {j \in 1..Len(cache) : cache[j].dirty}}]_vars

\* the column values a row stores, its tombstone mark aside
ColumnValues(r) == [c \in DOMAIN r \ {DELETED} |-> r[c]]

\* C5: update_where changes the stored column values of no tombstoned row,
\* whether the row satisfies the predicate or not, and a completed update
\* returns the number of live rows that satisfy its predicate.
UpdateSkipsTombstones ==
    [][lastOp'.op = "update_where" =>
        \A t \in UserTables :
          /\ \A p \in 0..(Len(disk[t]) - 1) : \A i \in 1..Len(View(t, p)) :
                IsDeleted(View(t, p)[i]) =>
                    /\ i <= Len(View(t, p)')
                    /\ ColumnValues(View(t, p)'[i]) = ColumnValues(View(t, p)[i])
          /\ lastOp'.err = NoErr =>
                lastOp'.count = MatchCount(TableView(t), lastOp'.preds)]_vars

\* C6: an INSERT with N value rows returns N, and a full scan after it
\* yields exactly N rows more than the scan before it, the earlier rows
\* among them.
InsertCounting ==
    [][/\ (lastOp'.op = "Insert" /\ obs'.phase = "inserted") => lastOp'.count = obs'.n
       /\ (obs.phase = "inserted" /\ lastOp'.op = "seq_scan" /\ lastOp'.table = obs.table)
            => /\ lastOp'.err = NoErr
               /\ Len(lastOp'.rows) = Len(obs.rows) + obs.n
               /\ \A j \in 1..Len(obs.rows) :
                     \E k \in 1..Len(lastOp'.rows) : lastOp'.rows[k] = obs.rows[j]]_vars

\* C7: CREATE TABLE for a name the catalog already holds fails and leaves the
\* rows of pg_catalog as they were.
CreateRejected ==
    [][(lastOp'.op = "CreateTable" /\ CatalogHas(lastOp'.table)) =>
        /\ lastOp'.err # NoErr
        /\ TableView(CATALOG)' = TableView(CATALOG)]_vars

\* a CREATE TABLE rejected by the semantic check for a table of the catalog
CreateRejectedWitness ==
    /\ lastOp.op = "CreateTable"
    /\ lastOp.err = "SemanticError"
    /\ CatalogHas(lastOp.table)

\* C8: every completed seq_scan returns the live rows of the list model.
ScanMatchesModel ==
    (lastOp.op = "seq_scan" /\ lastOp.err = NoErr) =>
        lastOp.rows = IterLiveRows(abs[lastOp.table])

\* C9: a table that has only been appended to is scanned in append order.
AppendOrder ==
    (appendOnly /\ lastOp.op = "seq_scan") =>
        /\ lastOp.err = NoErr
        /\ lastOp.rows = abs[lastOp.table]

\* a scan over several pages through a pool of one frame
AppendOrderWitness ==
    /\ appendOnly
    /\ lastOp.op = "seq_scan"
    /\ capacity = 1
    /\ Len(disk[lastOp.table]) >= 2
    /\ Len(lastOp.rows) >= 3

\* C10: every page in the pool or in a table file serializes to at most
\* PAGE_SIZE bytes.
PageSizeBound ==
    /\ \A i \in 1..Len(cache) : PageLen(cache[i].rows) <= PAGE_SIZE
    /\ \A t \in Tables : \A p \in 1..Len(disk[t]) : disk[t][p].len <= PAGE_SIZE

====
